---- MODULE Spec2Model ----
(***************************************************************************)
(* Model of the CList web front-end: the Home route (loader, Home,        *)
(* StorageModal, FileBrowser) and the FilePreview component with its      *)
(* file-type utilities.                                                    *)
(*                                                                         *)
(* JavaScript strings are modelled as sequences of one-character strings, *)
(* so that toLowerCase, split, trim, replace and template concatenation   *)
(* are computed character by character as the code computes them.         *)
(***************************************************************************)
EXTENDS Integers, Sequences, FiniteSets, TLC

\* null / undefined: a record, so that it compares with every object
NULL == [null |-> TRUE]

\* ------------------------------------------------------------------------
\* String primitives (JavaScript String.prototype)
\* ------------------------------------------------------------------------

EmptyStr == << >>

UpperChars ==
  <<"A","B","C","D","E","F","G","H","I","J","K","L","M",
    "N","O","P","Q","R","S","T","U","V","W","X","Y","Z">>

LowerChars ==
  <<"a","b","c","d","e","f","g","h","i","j","k","l","m",
    "n","o","p","q","r","s","t","u","v","w","x","y","z">>

\* toLowerCase on one character
ToLowerChar(c) ==
  IF \E i \in 1..Len(UpperChars) : UpperChars[i] = c
  THEN LowerChars[CHOOSE i \in 1..Len(UpperChars) : UpperChars[i] = c]
  ELSE c

\* String.prototype.toLowerCase
ToLowerCase(s) == [i \in 1..Len(s) |-> ToLowerChar(s[i])]

\* String.prototype.split(sep) for a one-character separator: the pieces
\* between the separators, in order (always at least one piece).
RECURSIVE SplitFrom(_, _, _, _)
SplitFrom(s, sep, i, cur) ==
  IF i > Len(s) THEN << cur >>
  ELSE IF s[i] = sep THEN << cur >> \o SplitFrom(s, sep, i + 1, EmptyStr)
  ELSE SplitFrom(s, sep, i + 1, Append(cur, s[i]))

Split(s, sep) == SplitFrom(s, sep, 1, EmptyStr)

\* Array.prototype.includes
Includes(list, x) == \E i \in 1..Len(list) : list[i] = x

\* ------------------------------------------------------------------------
\* File type detection utilities (FilePreview.tsx)
\* ------------------------------------------------------------------------

VIDEO_EXTENSIONS ==
  << <<"m","p","4">>,
     <<"w","e","b","m">>,
     <<"o","g","g">>,
     <<"m","o","v">>,
     <<"a","v","i">>,
     <<"m","k","v">>,
     <<"m","4","v">>,
     <<"f","l","v">>,
     <<"w","m","v">>,
     <<"3","g","p">> >>

AUDIO_EXTENSIONS ==
  << <<"m","p","3">>,
     <<"w","a","v">>,
     <<"o","g","g">>,
     <<"f","l","a","c">>,
     <<"a","a","c">>,
     <<"m","4","a">>,
     <<"w","m","a">>,
     <<"o","p","u","s">>,
     <<"w","e","b","m">> >>

IMAGE_EXTENSIONS ==
  << <<"j","p","g">>,
     <<"j","p","e","g">>,
     <<"p","n","g">>,
     <<"g","i","f">>,
     <<"w","e","b","p">>,
     <<"s","v","g">>,
     <<"b","m","p">>,
     <<"i","c","o">>,
     <<"a","v","i","f">> >>

TEXT_EXTENSIONS ==
  << <<"t","x","t">>,
     <<"l","o","g">>,
     <<"m","d">>,
     <<"m","a","r","k","d","o","w","n">>,
     <<"r","s","t">>,
     <<"c","s","v">>,
     <<"i","n","i">>,
     <<"c","f","g">>,
     <<"c","o","n","f">> >>

CODE_EXTENSIONS ==
  << <<"j","s">>,
     <<"t","s">>,
     <<"j","s","x">>,
     <<"t","s","x">>,
     <<"j","s","o","n">>,
     <<"h","t","m","l">>,
     <<"c","s","s">>,
     <<"s","c","s","s">>,
     <<"l","e","s","s">>,
     <<"p","y">>,
     <<"j","a","v","a">>,
     <<"c">>,
     <<"c","p","p">>,
     <<"h">>,
     <<"h","p","p">>,
     <<"c","s">>,
     <<"g","o">>,
     <<"r","s">>,
     <<"r","b">>,
     <<"p","h","p">>,
     <<"s","q","l">>,
     <<"s","h">>,
     <<"b","a","s","h">>,
     <<"z","s","h">>,
     <<"p","s","1">>,
     <<"b","a","t">>,
     <<"c","m","d">>,
     <<"x","m","l">>,
     <<"y","a","m","l">>,
     <<"y","m","l">>,
     <<"t","o","m","l">>,
     <<"v","u","e">>,
     <<"s","v","e","l","t","e">>,
     <<"a","s","t","r","o">>,
     <<"s","w","i","f","t">>,
     <<"k","t">>,
     <<"s","c","a","l","a">>,
     <<"r">>,
     <<"l","u","a">>,
     <<"p","l">>,
     <<"e","x">>,
     <<"e","x","s">>,
     <<"d","o","c","k","e","r","f","i","l","e">>,
     <<"m","a","k","e","f","i","l","e">>,
     <<"c","m","a","k","e">>,
     <<"g","r","a","d","l","e">>,
     <<"e","n","v">> >>

PDF_EXTENSIONS ==
  << <<"p","d","f">> >>

\* the extension taken as the last piece, whether or not there is a '.'
getFileExtensionLastPiece(filename) ==
  LET parts == Split(ToLowerCase(filename), ".")
  IN  parts[Len(parts)]

\* getFileExtension: the lower-cased text after the last '.', '' without '.'
getFileExtension(filename) ==
  LET parts == Split(ToLowerCase(filename), ".")
  IN  IF Len(parts) > 1 THEN parts[Len(parts)] ELSE EmptyStr

\* getFileType checked audio-first (a plausible slip in the order of the ifs)
getFileTypeAudioFirst(filename) ==
  LET ext == getFileExtension(filename)
  IN  IF Includes(AUDIO_EXTENSIONS, ext) THEN "audio"
      ELSE IF Includes(VIDEO_EXTENSIONS, ext) THEN "video"
      ELSE IF Includes(IMAGE_EXTENSIONS, ext) THEN "image"
      ELSE IF Includes(PDF_EXTENSIONS, ext) THEN "pdf"
      ELSE IF Includes(CODE_EXTENSIONS, ext) THEN "code"
      ELSE IF Includes(TEXT_EXTENSIONS, ext) THEN "text"
      ELSE "unknown"

\* getFileType: the first list, in the order video, audio, image, pdf, code,
\* text, that includes the extension
getFileType(filename) ==
  LET ext == getFileExtension(filename)
  IN  IF Includes(VIDEO_EXTENSIONS, ext) THEN "video"
      ELSE IF Includes(AUDIO_EXTENSIONS, ext) THEN "audio"
      ELSE IF Includes(IMAGE_EXTENSIONS, ext) THEN "image"
      ELSE IF Includes(PDF_EXTENSIONS, ext) THEN "pdf"
      ELSE IF Includes(CODE_EXTENSIONS, ext) THEN "code"
      ELSE IF Includes(TEXT_EXTENSIONS, ext) THEN "text"
      ELSE "unknown"

\* previewable whenever the name has an extension
isPreviewableByExtension(filename) == getFileExtension(filename) # EmptyStr

isPreviewable(filename) ==
  getFileType(filename) \in {"video", "audio", "image", "text", "code", "pdf"}

\* the bodies FilePreview renders for a file type, in document order
\* (FilePreview lines 102-118)
PreviewBodies(fileType) ==
  (IF fileType = "video" THEN << "VideoPlayer" >> ELSE << >>)
    \o (IF fileType = "audio" THEN << "AudioPlayer" >> ELSE << >>)
    \o (IF fileType = "image" THEN << "ImageViewer" >> ELSE << >>)
    \o (IF fileType = "text" \/ fileType = "code" THEN << "TextViewer" >> ELSE << >>)
    \o (IF fileType = "pdf" THEN << "PDFViewer" >> ELSE << >>)
    \o (IF fileType = "unknown" THEN << "download" >> ELSE << >>)

\* x || d on strings
OrDefault(x, d) == IF x = "" THEN d ELSE x


\* Object.prototype as a lookup with a lower-case key sees it: the inherited
\* properties whose names are lower-case, which are not strings
ObjectPrototype ==
  << << <<"c","o","n","s","t","r","u","c","t","o","r">>, "[Function: Object]" >>,
     << <<"_","_","p","r","o","t","o","_","_">>, "[Object: null prototype] {}" >> >>

\* table[key] on an object literal: the own property, else the inherited
\* one, else undefined (here '')
Lookup(table, key) ==
  LET all == table \o ObjectPrototype
  IN  IF \E j \in 1..Len(all) : all[j][1] = key
      THEN all[CHOOSE j \in 1..Len(all) :
                 all[j][1] = key /\ \A m \in 1..(j - 1) : all[m][1] # key][2]
      ELSE ""

\* mimeTypes (FilePreview lines 558-597)
mimeTypes ==
  << << <<"m","p","4">>, "video/mp4" >>,
     << <<"w","e","b","m">>, "video/webm" >>,
     << <<"o","g","g">>, "video/ogg" >>,
     << <<"m","o","v">>, "video/quicktime" >>,
     << <<"a","v","i">>, "video/x-msvideo" >>,
     << <<"m","k","v">>, "video/x-matroska" >>,
     << <<"m","4","v">>, "video/x-m4v" >>,
     << <<"m","p","3">>, "audio/mpeg" >>,
     << <<"w","a","v">>, "audio/wav" >>,
     << <<"f","l","a","c">>, "audio/flac" >>,
     << <<"a","a","c">>, "audio/aac" >>,
     << <<"m","4","a">>, "audio/mp4" >>,
     << <<"o","p","u","s">>, "audio/opus" >>,
     << <<"j","p","g">>, "image/jpeg" >>,
     << <<"j","p","e","g">>, "image/jpeg" >>,
     << <<"p","n","g">>, "image/png" >>,
     << <<"g","i","f">>, "image/gif" >>,
     << <<"w","e","b","p">>, "image/webp" >>,
     << <<"s","v","g">>, "image/svg+xml" >>,
     << <<"b","m","p">>, "image/bmp" >>,
     << <<"i","c","o">>, "image/x-icon" >>,
     << <<"a","v","i","f">>, "image/avif" >>,
     << <<"t","x","t">>, "text/plain" >>,
     << <<"m","d">>, "text/markdown" >>,
     << <<"c","s","v">>, "text/csv" >>,
     << <<"j","s">>, "text/javascript" >>,
     << <<"t","s">>, "text/typescript" >>,
     << <<"j","s","o","n">>, "application/json" >>,
     << <<"h","t","m","l">>, "text/html" >>,
     << <<"c","s","s">>, "text/css" >>,
     << <<"x","m","l">>, "text/xml" >>,
     << <<"p","d","f">>, "application/pdf" >> >>

\* getMimeType (FilePreview lines 555-600)
getMimeType(filename) ==
  OrDefault(Lookup(mimeTypes, getFileExtension(filename)), "application/octet-stream")

\* languages (FilePreview lines 605-649)
languages ==
  << << <<"j","s">>, "javascript" >>,
     << <<"j","s","x">>, "javascript" >>,
     << <<"t","s">>, "typescript" >>,
     << <<"t","s","x">>, "typescript" >>,
     << <<"p","y">>, "python" >>,
     << <<"r","b">>, "ruby" >>,
     << <<"j","a","v","a">>, "java" >>,
     << <<"c">>, "c" >>,
     << <<"c","p","p">>, "cpp" >>,
     << <<"h">>, "c" >>,
     << <<"h","p","p">>, "cpp" >>,
     << <<"c","s">>, "csharp" >>,
     << <<"g","o">>, "go" >>,
     << <<"r","s">>, "rust" >>,
     << <<"p","h","p">>, "php" >>,
     << <<"s","q","l">>, "sql" >>,
     << <<"s","h">>, "bash" >>,
     << <<"b","a","s","h">>, "bash" >>,
     << <<"z","s","h">>, "bash" >>,
     << <<"p","s","1">>, "powershell" >>,
     << <<"b","a","t">>, "batch" >>,
     << <<"c","m","d">>, "batch" >>,
     << <<"h","t","m","l">>, "html" >>,
     << <<"c","s","s">>, "css" >>,
     << <<"s","c","s","s">>, "scss" >>,
     << <<"l","e","s","s">>, "less" >>,
     << <<"j","s","o","n">>, "json" >>,
     << <<"x","m","l">>, "xml" >>,
     << <<"y","a","m","l">>, "yaml" >>,
     << <<"y","m","l">>, "yaml" >>,
     << <<"t","o","m","l">>, "toml" >>,
     << <<"m","d">>, "markdown" >>,
     << <<"m","a","r","k","d","o","w","n">>, "markdown" >>,
     << <<"v","u","e">>, "vue" >>,
     << <<"s","v","e","l","t","e">>, "svelte" >>,
     << <<"s","w","i","f","t">>, "swift" >>,
     << <<"k","t">>, "kotlin" >>,
     << <<"s","c","a","l","a">>, "scala" >>,
     << <<"r">>, "r" >>,
     << <<"l","u","a">>, "lua" >>,
     << <<"p","l">>, "perl" >>,
     << <<"e","x">>, "elixir" >>,
     << <<"e","x","s">>, "elixir" >> >>

\* getCodeLanguage (FilePreview lines 602-652)
getCodeLanguage(filename) ==
  OrDefault(Lookup(languages, getFileExtension(filename)), "plaintext")


\* String.prototype.trim (the inputs of the model use ' ' as whitespace)
RECURSIVE TrimStart(_)
TrimStart(s) ==
  IF s = EmptyStr THEN s
  ELSE IF Head(s) = " " THEN TrimStart(Tail(s))
  ELSE s

RECURSIVE TrimEnd(_)
TrimEnd(s) ==
  IF s = EmptyStr THEN s
  ELSE IF s[Len(s)] = " " THEN TrimEnd(SubSeq(s, 1, Len(s) - 1))
  ELSE s

\* leading whitespace removed only
TrimStartOnly(s) == TrimStart(s)

Trim(s) == TrimEnd(TrimStart(s))

\* the join that keeps the first piece only
JoinFirstOnly(parts, sep) == IF Len(parts) = 0 THEN EmptyStr ELSE parts[1]

\* Array.prototype.join for a one-character separator
RECURSIVE Join(_, _)
Join(parts, sep) ==
  IF Len(parts) = 0 THEN EmptyStr
  ELSE IF Len(parts) = 1 THEN parts[1]
  ELSE parts[1] \o << sep >> \o Join(Tail(parts), sep)

\* Array.prototype.filter(Boolean) on an array of strings
FilterBoolean(parts) == SelectSeq(parts, LAMBDA x : x # EmptyStr)

\* newPath.replace(/^\//, "").replace(/\/$/, "")
StripSlashes(p) ==
  LET a == IF p # EmptyStr /\ Head(p) = "/" THEN Tail(p) ELSE p
  IN  IF a # EmptyStr /\ a[Len(a)] = "/" THEN SubSeq(a, 1, Len(a) - 1) ELSE a

\* ------------------------------------------------------------------------
\* State
\* ------------------------------------------------------------------------

VARIABLES
  \* file-type utilities applied to a file name
  filename, ftResult,
  \* loader: the worker environment, the auth outcome, the returned data
  env, authIsAdmin, loaderData, calls,
  \* browser session and Home
  sessionStorage, homeMounted, siteAnnouncement,
  isAdmin, storages, selectedStorage,
  showLogin, showStorageForm, editingStorage, showAnnouncement,
  \* StorageModal
  formData, formLoading, formError,
  \* FileBrowser
  path, objects, loading, error,
  uploadProgress, previewFile,
  showNewFolderInput, newFolderName, creatingFolder,
  showOfflineDownload, offlineUrl, offlineFilename, offlineDownloading,
  \* FilePreview: the keydown listeners registered on window
  keyListeners,
  \* TextViewer: its state (null when not mounted) and its fetches in flight
  textViewer, textFetches,
  \* requests sent and not yet answered, upload batches in progress
  inflight, uploads,
  \* history: the handler the latest step ran; the mounts of Home in this
  \* browser session that had a non-empty announcement
  event, annMounts

ftVars == << filename, ftResult >>
ldVars == << env, authIsAdmin, loaderData, calls >>
sessVars == << sessionStorage, homeMounted, siteAnnouncement >>
homeVars == << isAdmin, storages, selectedStorage, showLogin, showStorageForm,
               editingStorage, showAnnouncement >>
formVars == << formData, formLoading, formError >>
listVars == << path, objects, loading, error >>
folderVars == << showNewFolderInput, newFolderName, creatingFolder >>
offlineVars == << showOfflineDownload, offlineUrl, offlineFilename,
                  offlineDownloading >>
previewVars == << previewFile, keyListeners, textViewer, textFetches >>
fbVars == << listVars, folderVars, offlineVars, previewVars, uploadProgress >>
netVars == << inflight, uploads >>
\* everything the application itself holds (all but the history variable)
appVars == << sessVars, homeVars, formVars, fbVars, netVars >>
histVars == << event, annMounts >>
vars == << ftVars, ldVars, appVars, histVars >>

Ev(h, arg) == [h |-> h, arg |-> arg]

\* ------------------------------------------------------------------------
\* loader (route home)
\* ------------------------------------------------------------------------

\* Largest number of rows of the storages table
MaxRows == 2

\* A row of the storages table as ~/lib/storage returns it
Row(id, name, isPublic) ==
  [id |-> id, name |-> name, endpoint |-> "https://s3.example", region |-> "auto",
   accessKeyId |-> "AK", secretAccessKey |-> "SK", bucket |-> "b",
   basePath |-> "", isPublic |-> isPublic]

Rows == { Row(1, "alpha", TRUE), Row(2, "beta", FALSE), Row(3, "gamma", TRUE) }

\* The tables the D1 binding may hold: distinct rows, at most MaxRows of them
DbStates ==
  { q \in UNION { [1..n -> Rows] : n \in 0..MaxRows } :
      \A i, j \in 1..Len(q) : i # j => q[i].id # q[j].id }

\* getAllStorages: every row
getAllStorages(db) == db

\* getPublicStorages: the rows whose isPublic is true
getPublicStorages(db) == SelectSeq(db, LAMBDA r : r.isPublic)

\* The fields of a storage the loader hands to the client (lines 38-47)
StorageInfoOf(r) ==
  [id |-> r.id, name |-> r.name, endpoint |-> r.endpoint, region |-> r.region,
   accessKeyId |-> r.accessKeyId, bucket |-> r.bucket, basePath |-> r.basePath,
   isPublic |-> r.isPublic]

\* loader that queries every storage whatever the auth result
loaderAlwaysAll(e, auth) ==
  LET siteTitle == OrDefault(e.SITE_TITLE, "CList")
      siteAnn == OrDefault(e.SITE_ANNOUNCEMENT, "")
  IN  IF e.DB = NULL
      THEN [data |-> [isAdmin |-> FALSE, storages |-> << >>,
                      siteTitle |-> siteTitle, siteAnnouncement |-> siteAnn],
            calls |-> << >>]
      ELSE LET rows == getAllStorages(e.DB.rows)
           IN  [data |-> [isAdmin |-> auth,
                          storages |-> [i \in 1..Len(rows) |-> StorageInfoOf(rows[i])],
                          siteTitle |-> siteTitle, siteAnnouncement |-> siteAnn],
                calls |-> << "initDatabase", "requireAuth", "getAllStorages" >>]

\* loader that authenticates before it looks at the database binding
loaderAuthFirst(e, auth) ==
  IF e.DB = NULL
  THEN [data |-> [isAdmin |-> auth, storages |-> << >>,
                  siteTitle |-> OrDefault(e.SITE_TITLE, "CList"),
                  siteAnnouncement |-> OrDefault(e.SITE_ANNOUNCEMENT, "")],
        calls |-> << "requireAuth" >>]
  ELSE loaderAlwaysAll(e, auth)

\* loader: the data returned and the collaborators called, in order
loader(e, auth) ==
  LET siteTitle == OrDefault(e.SITE_TITLE, "CList")
      siteAnn == OrDefault(e.SITE_ANNOUNCEMENT, "")
  IN  IF e.DB = NULL
      THEN [data |-> [isAdmin |-> FALSE, storages |-> << >>,
                      siteTitle |-> siteTitle, siteAnnouncement |-> siteAnn],
            calls |-> << >>]
      ELSE LET rows == IF auth THEN getAllStorages(e.DB.rows)
                       ELSE getPublicStorages(e.DB.rows)
           IN  [data |-> [isAdmin |-> auth,
                          storages |-> [i \in 1..Len(rows) |-> StorageInfoOf(rows[i])],
                          siteTitle |-> siteTitle, siteAnnouncement |-> siteAnn],
                calls |-> << "initDatabase", "requireAuth",
                             IF auth THEN "getAllStorages" ELSE "getPublicStorages" >>]

Envs ==
  [DB : {NULL} \cup { [rows |-> q] : q \in DbStates }, SITE_TITLE : {"", "My Files"},
   SITE_ANNOUNCEMENT : {"", "notice"}]

\* One request handled by the loader
Loader ==
  /\ loaderData = NULL
  /\ loaderData' = loader(env, authIsAdmin).data
  /\ calls' = loader(env, authIsAdmin).calls
  /\ event' = Ev("loader", "")
  /\ UNCHANGED << env, authIsAdmin, ftVars, appVars, annMounts >>

\* ------------------------------------------------------------------------
\* Requests
\* ------------------------------------------------------------------------

NoBody == [absent |-> TRUE]
NoClosure == [absent |-> TRUE]

\* A request sent with fetch / XMLHttpRequest and not yet answered: the
\* method, the URL (api, storage id, key, action), the JSON body, the values
\* the awaiting handler closed over, and whether the component whose state
\* the handler sets is still the mounted instance.
Req(op, method, api, sid, key, action, body, clo, live) ==
  [op |-> op, method |-> method, api |-> api, sid |-> sid, key |-> key,
   action |-> action, body |-> body, clo |-> clo, live |-> live]

RemoveAt(q, i) == [j \in 1..(Len(q) - 1) |-> IF j < i THEN q[j] ELSE q[j + 1]]

FbOps == {"list", "delete", "rmdir", "mkdir", "fetch", "put"}

\* the requests of an unmounted component instance keep running, their
\* setState calls no longer reach any state
Orphan(q, ops) ==
  [j \in 1..Len(q) |-> IF q[j].op \in ops THEN [q[j] EXCEPT !.live = FALSE] ELSE q[j]]

OrphanBatches(u) == [j \in 1..Len(u) |-> [u[j] EXCEPT !.live = FALSE]]

\* fetch(`/api/files/${storage.id}/${path}?action=list`) of loadFiles
ListReq(sid, p, live) ==
  Req("list", "GET", "/api/files", sid, p, "list", NoBody, [path |-> p], live)

\* fetch("/api/storages") of refreshStorages
RefreshReq ==
  Req("refresh", "GET", "/api/storages", 0, EmptyStr, "", NoBody, NoClosure, TRUE)

\* ------------------------------------------------------------------------
\* Home
\* ------------------------------------------------------------------------

\* Largest number of page loads with an announcement in one browser session
MaxMounts == 3

\* Largest number of requests awaiting their response
MaxInFlight == 2

Info1 == StorageInfoOf(Row(1, "alpha", TRUE))
Info2 == StorageInfoOf(Row(2, "beta", FALSE))

\* window.sessionStorage: a set of <<key, value>> pairs
GetItem(store, k) ==
  IF \E kv \in store : kv[1] = k THEN (CHOOSE kv \in store : kv[1] = k)[2] ELSE ""

SetItem(store, k, v) == { kv \in store : kv[1] # k } \cup { << k, v >> }

BlankForm ==
  [name |-> "", endpoint |-> "", region |-> "auto", accessKeyId |-> "",
   secretAccessKey |-> "", bucket |-> "", basePath |-> "", isPublic |-> FALSE]

\* useState initial value of formData in StorageModal (lines 175-184)
InitialForm(storage) ==
  IF storage = NULL THEN BlankForm
  ELSE [name |-> storage.name, endpoint |-> storage.endpoint,
        region |-> OrDefault(storage.region, "auto"),
        accessKeyId |-> storage.accessKeyId, secretAccessKey |-> "",
        bucket |-> storage.bucket, basePath |-> storage.basePath,
        isPublic |-> storage.isPublic]

\* StorageModal not mounted
FormBlank ==
  /\ formData' = BlankForm
  /\ formLoading' = FALSE
  /\ formError' = ""

\* FileBrowser not mounted, or just mounted: the useState initial values
FbBlank ==
  /\ path' = EmptyStr
  /\ objects' = << >>
  /\ loading' = FALSE
  /\ error' = ""
  /\ uploadProgress' = NULL
  /\ previewFile' = NULL
  /\ showNewFolderInput' = FALSE
  /\ newFolderName' = EmptyStr
  /\ creatingFolder' = FALSE
  /\ showOfflineDownload' = FALSE
  /\ offlineUrl' = EmptyStr
  /\ offlineFilename' = EmptyStr
  /\ offlineDownloading' = FALSE
  /\ keyListeners' = << >>
  /\ textViewer' = NULL
  /\ textFetches' = << >>

HomeBlank ==
  /\ isAdmin' = FALSE
  /\ storages' = << >>
  /\ selectedStorage' = NULL
  /\ showLogin' = FALSE
  /\ showStorageForm' = FALSE
  /\ editingStorage' = NULL
  /\ showAnnouncement' = FALSE
  /\ siteAnnouncement' = ""

\* The announcement effect that never records that it was shown
AnnouncementEffectNoFlag(ann, store) ==
  IF ann # "" /\ GetItem(store, "announcement_shown") = ""
  THEN [show |-> TRUE, store |-> store]
  ELSE [show |-> FALSE, store |-> store]

\* The mount effect of Home, announcement part (lines 942-949)
AnnouncementEffect(ann, store) ==
  IF ann # "" /\ GetItem(store, "announcement_shown") = ""
  THEN [show |-> TRUE, store |-> SetItem(store, "announcement_shown", "true")]
  ELSE [show |-> FALSE, store |-> store]

\* A page load: Home is constructed from the loader data and its mount
\* effect runs
HomeMount(ld) ==
  /\ ~homeMounted
  /\ ld.siteAnnouncement # "" => annMounts < MaxMounts
  /\ homeMounted' = TRUE
  /\ siteAnnouncement' = OrDefault(ld.siteAnnouncement, "")
  /\ isAdmin' = ld.isAdmin
  /\ storages' = ld.storages
  /\ selectedStorage' = NULL
  /\ showLogin' = FALSE
  /\ showStorageForm' = FALSE
  /\ editingStorage' = NULL
  /\ LET eff == AnnouncementEffect(OrDefault(ld.siteAnnouncement, ""), sessionStorage)
     IN  /\ showAnnouncement' = eff.show
         /\ sessionStorage' = eff.store
  /\ annMounts' = IF ld.siteAnnouncement # "" THEN annMounts + 1 ELSE annMounts
  /\ FormBlank
  /\ FbBlank
  /\ inflight' = << >>
  /\ uploads' = << >>
  /\ event' = Ev("HomeMount", ld.siteAnnouncement)
  /\ UNCHANGED << ftVars, ldVars >>

\* The page is left or reloaded: every component and request is gone, the
\* session storage stays
PageUnload ==
  /\ homeMounted
  /\ homeMounted' = FALSE
  /\ HomeBlank
  /\ FormBlank
  /\ FbBlank
  /\ inflight' = << >>
  /\ uploads' = << >>
  /\ event' = Ev("PageUnload", "")
  /\ UNCHANGED << sessionStorage, annMounts, ftVars, ldVars >>

\* The browser session ends and a new one starts with an empty sessionStorage
NewSession ==
  /\ ~homeMounted
  /\ sessionStorage # {} \/ annMounts > 0
  /\ sessionStorage' = {}
  /\ annMounts' = 0
  /\ event' = Ev("NewSession", "")
  /\ UNCHANGED << homeMounted, siteAnnouncement, homeVars, formVars, fbVars,
                  netVars, ftVars, ldVars >>

\* onClose of AnnouncementModal (line 1174)
CloseAnnouncement ==
  /\ homeMounted
  /\ showAnnouncement /\ siteAnnouncement # ""
  /\ showAnnouncement' = FALSE
  /\ event' = Ev("CloseAnnouncement", "")
  /\ UNCHANGED << sessVars, isAdmin, storages, selectedStorage, showLogin,
                  showStorageForm, editingStorage, formVars, fbVars, netVars,
                  annMounts, ftVars, ldVars >>

outerVars == << ftVars, ldVars, sessVars, annMounts >>

\* FileBrowser is unmounted (selectedStorage becomes null): its state is
\* gone; the requests of its handlers stay in flight
FbUnmount(q) ==
  /\ FbBlank
  /\ inflight' = Orphan(q, FbOps)
  /\ uploads' = OrphanBatches(uploads)

\* What GET /api/storages may answer
RefreshResponses ==
  { [storages |-> << Info1, Info2 >>, isAdmin |-> TRUE],
    [storages |-> << Info1 >>, isAdmin |-> TRUE],
    [storages |-> << Info1 >>, isAdmin |-> FALSE],
    [storages |-> << >>, isAdmin |-> FALSE] }

\* "登录" button (line 1072)
OpenLogin ==
  /\ homeMounted /\ ~isAdmin
  /\ showLogin' = TRUE
  /\ event' = Ev("OpenLogin", "")
  /\ UNCHANGED << isAdmin, storages, selectedStorage, showStorageForm,
                  editingStorage, showAnnouncement, formVars, fbVars, netVars,
                  outerVars >>

\* LoginModal.handleSubmit up to the fetch (lines 90-100)
LoginSubmit ==
  /\ homeMounted /\ showLogin
  /\ Len(inflight) < MaxInFlight
  /\ inflight' = Append(inflight,
       Req("login", "POST", "/api/storages", 0, EmptyStr, "",
           [action |-> "login"], NoClosure, TRUE))
  /\ event' = Ev("LoginSubmit", "")
  /\ UNCHANGED << homeVars, formVars, fbVars, uploads, outerVars >>

\* LoginModal.handleSubmit after the fetch; onLogin (line 1159): the client
\* takes the admin role and reloads the storages
LoginDone(i, ok) ==
  /\ homeMounted
  /\ i \in 1..Len(inflight) /\ inflight[i].op = "login"
  /\ IF ok
     THEN /\ showLogin' = FALSE
          /\ isAdmin' = TRUE
          /\ inflight' = Append(RemoveAt(inflight, i), RefreshReq)
     ELSE /\ inflight' = RemoveAt(inflight, i)
          /\ UNCHANGED << showLogin, isAdmin >>
  /\ event' = Ev("LoginDone", IF ok THEN "ok" ELSE "failed")
  /\ UNCHANGED << storages, selectedStorage, showStorageForm, editingStorage,
                  showAnnouncement, formVars, fbVars, uploads, outerVars >>

\* handleLogout up to the fetch (lines 1011-1017)
Logout ==
  /\ homeMounted /\ isAdmin
  /\ Len(inflight) < MaxInFlight
  /\ inflight' = Append(inflight,
       Req("logout", "POST", "/api/storages", 0, EmptyStr, "",
           [action |-> "logout"], NoClosure, TRUE))
  /\ event' = Ev("handleLogout", "")
  /\ UNCHANGED << homeVars, formVars, fbVars, uploads, outerVars >>

\* handleLogout after the fetch (lines 1018-1021); a network error is ignored
LogoutDone(i, answered) ==
  /\ homeMounted
  /\ i \in 1..Len(inflight) /\ inflight[i].op = "logout"
  /\ IF answered
     THEN /\ isAdmin' = FALSE
          /\ selectedStorage' = NULL
          /\ FbUnmount(Append(RemoveAt(inflight, i), RefreshReq))
     ELSE /\ inflight' = RemoveAt(inflight, i)
          /\ UNCHANGED << isAdmin, selectedStorage, fbVars, uploads >>
  /\ event' = Ev("LogoutDone", IF answered THEN "answered" ELSE "network error")
  /\ UNCHANGED << storages, showLogin, showStorageForm, editingStorage,
                  showAnnouncement, formVars, outerVars >>

\* refreshStorages after the fetch (lines 1003-1008)
RefreshDone(i, ok, data) ==
  /\ homeMounted
  /\ i \in 1..Len(inflight) /\ inflight[i].op = "refresh"
  /\ inflight' = RemoveAt(inflight, i)
  /\ IF ok
     THEN /\ storages' = data.storages
          /\ isAdmin' = data.isAdmin
     ELSE UNCHANGED << storages, isAdmin >>
  /\ event' = Ev("RefreshDone", IF ok THEN "ok" ELSE "failed")
  /\ UNCHANGED << selectedStorage, showLogin, showStorageForm, editingStorage,
                  showAnnouncement, formVars, fbVars, uploads, outerVars >>

\* ------------------------------------------------------------------------
\* StorageModal
\* ------------------------------------------------------------------------

\* window.confirm that is never asked: the answer is always yes
ConfirmSkipped(answer) == TRUE

\* window.confirm (lines 452, 467, 1025): the user's answer
Confirm(answer) == answer

InSeq(q, x) == \E j \in 1..Len(q) : q[j] = x

\* "+ 添加" (line 1089) and "✎" (line 1123): the modal is mounted with the
\* storage to edit, or with none; a modal already open keeps its form state
OpenStorageForm(storage) ==
  /\ homeMounted /\ isAdmin
  /\ storage # NULL => InSeq(storages, storage)
  /\ editingStorage' = storage
  /\ showStorageForm' = TRUE
  /\ IF showStorageForm
     THEN UNCHANGED formVars
     ELSE /\ formData' = InitialForm(storage)
          /\ formLoading' = FALSE
          /\ formError' = ""
  /\ event' = Ev("OpenStorageForm", IF storage = NULL THEN "add" ELSE "edit")
  /\ UNCHANGED << isAdmin, storages, selectedStorage, showLogin,
                  showAnnouncement, fbVars, netVars, outerVars >>

\* onChange of a form input (lines 234-309)
EditForm(f, v) ==
  /\ homeMounted /\ showStorageForm
  /\ formData[f] # v
  /\ formData' = [formData EXCEPT ![f] = v]
  /\ event' = Ev("EditForm", f)
  /\ UNCHANGED << formLoading, formError, homeVars, fbVars, netVars, outerVars >>

\* the `required` attributes of the inputs (lines 237, 248, 269, 279, 291)
FormValid(storage, fd) ==
  /\ fd.name # "" /\ fd.endpoint # "" /\ fd.bucket # ""
  /\ storage = NULL => fd.accessKeyId # "" /\ fd.secretAccessKey # ""

WithId(id, fd) ==
  [id |-> id, name |-> fd.name, endpoint |-> fd.endpoint, region |-> fd.region,
   accessKeyId |-> fd.accessKeyId, secretAccessKey |-> fd.secretAccessKey,
   bucket |-> fd.bucket, basePath |-> fd.basePath, isPublic |-> fd.isPublic]

\* delete body[f]
DeleteField(b, f) == [g \in (DOMAIN b) \ {f} |-> b[g]]

\* the request body that always carries the secret input
SaveBodyKeepsSecret(storage, fd) ==
  IF storage # NULL THEN WithId(storage.id, fd) ELSE fd

\* body of the save request (lines 195-199)
SaveBody(storage, fd) ==
  LET body == IF storage # NULL THEN WithId(storage.id, fd) ELSE fd
  IN  IF storage # NULL /\ fd.secretAccessKey = ""
      THEN DeleteField(body, "secretAccessKey")
      ELSE body

\* method of the save request (line 194)
SaveMethod(storage) == IF storage # NULL THEN "PUT" ELSE "POST"

\* StorageModal.handleSubmit up to the fetch (lines 188-205)
FormSubmit ==
  /\ homeMounted /\ showStorageForm
  /\ ~formLoading
  /\ FormValid(editingStorage, formData)
  /\ Len(inflight) < MaxInFlight
  /\ formLoading' = TRUE
  /\ formError' = ""
  /\ inflight' = Append(inflight,
       Req("save", SaveMethod(editingStorage), "/api/storages", 0, EmptyStr, "",
           SaveBody(editingStorage, formData), NoClosure, TRUE))
  /\ event' = Ev("StorageModal.handleSubmit", "")
  /\ UNCHANGED << formData, homeVars, fbVars, uploads, outerVars >>

\* StorageModal.handleSubmit after the fetch (lines 207-217) and onSave
\* (line 1166)
SaveDone(i, resp) ==
  /\ homeMounted
  /\ i \in 1..Len(inflight) /\ inflight[i].op = "save"
  /\ IF resp = "ok"
     THEN /\ showStorageForm' = FALSE
          /\ editingStorage' = NULL
          /\ FormBlank
          /\ inflight' = Append(Orphan(RemoveAt(inflight, i), {"save"}), RefreshReq)
     ELSE /\ inflight' = RemoveAt(inflight, i)
          /\ IF inflight[i].live
             THEN /\ formError' = (IF resp = "fail" THEN "save failed" ELSE "network error")
                  /\ formLoading' = FALSE
                  /\ UNCHANGED formData
             ELSE UNCHANGED formVars
          /\ UNCHANGED << showStorageForm, editingStorage >>
  /\ event' = Ev("SaveDone", resp)
  /\ UNCHANGED << isAdmin, storages, selectedStorage, showLogin,
                  showAnnouncement, fbVars, uploads, outerVars >>

\* onCancel (line 1167)
CancelForm ==
  /\ homeMounted /\ showStorageForm
  /\ showStorageForm' = FALSE
  /\ editingStorage' = NULL
  /\ FormBlank
  /\ inflight' = Orphan(inflight, {"save"})
  /\ event' = Ev("CancelForm", "")
  /\ UNCHANGED << isAdmin, storages, selectedStorage, showLogin,
                  showAnnouncement, fbVars, uploads, outerVars >>

\* handleDeleteStorage up to the fetch (lines 1024-1027); the handler closes
\* over the selectedStorage of the render it was created in
DeleteStorage(s, confirmed) ==
  /\ homeMounted /\ isAdmin
  /\ InSeq(storages, s)
  /\ IF Confirm(confirmed)
     THEN /\ Len(inflight) < MaxInFlight
          /\ inflight' = Append(inflight,
               Req("delStorage", "DELETE", "/api/storages", s.id, EmptyStr, "",
                   NoBody, [selected |-> selectedStorage], TRUE))
     ELSE UNCHANGED inflight
  /\ event' = Ev("handleDeleteStorage", IF confirmed THEN "confirmed" ELSE "declined")
  /\ UNCHANGED << homeVars, formVars, fbVars, uploads, outerVars >>

\* handleDeleteStorage after the fetch (lines 1028-1032)
DelStorageDone(i, resp) ==
  /\ homeMounted
  /\ i \in 1..Len(inflight) /\ inflight[i].op = "delStorage"
  /\ LET r == inflight[i]
         wasSelected == r.clo.selected # NULL /\ r.clo.selected.id = r.sid
     IN  IF resp = "ok"
         THEN IF wasSelected
              THEN /\ selectedStorage' = NULL
                   /\ FbUnmount(Append(RemoveAt(inflight, i), RefreshReq))
              ELSE /\ inflight' = Append(RemoveAt(inflight, i), RefreshReq)
                   /\ UNCHANGED << selectedStorage, fbVars, uploads >>
         ELSE /\ inflight' = RemoveAt(inflight, i)
              /\ UNCHANGED << selectedStorage, fbVars, uploads >>
  /\ event' = Ev("DelStorageDone", resp)
  /\ UNCHANGED << isAdmin, storages, showLogin, showStorageForm, editingStorage,
                  showAnnouncement, formVars, outerVars >>

\* ------------------------------------------------------------------------
\* FileBrowser: listing and navigation
\* ------------------------------------------------------------------------

\* S3Object (lines 51-57)
Obj(key, name, isDir) ==
  [key |-> key, name |-> name, size |-> IF isDir THEN 0 ELSE 1,
   lastModified |-> "2025-01-01T00:00:00Z", isDirectory |-> isDir]

\* key of the entry `name` of directory p, as the list API reports it
KeyIn(p, name, isDir) ==
  (IF p = EmptyStr THEN name ELSE p \o << "/" >> \o name)
    \o (IF isDir THEN << "/" >> ELSE EmptyStr)

Entry(name, isDir) == [name |-> name, dir |-> isDir]

\* What a directory may hold: entries in the order the API lists them
ShapeEmpty == << >>

ShapeTwo ==
  << Entry(<<"d">>, TRUE),
     Entry(<<"a",".","m","p","4">>, FALSE) >>

ShapeMany ==
  << Entry(<<"d">>, TRUE),
     Entry(<<"a",".","m","p","4">>, FALSE),
     Entry(<<"c",".","z","i","p">>, FALSE),
     Entry(<<"v",".","m","p","4">>, TRUE),
     Entry(<<"b",".","T","X","T">>, FALSE),
     Entry(<<"e",".","o","g","g">>, FALSE),
     Entry(<<"f",".","p","d","f">>, FALSE) >>

Shapes == { ShapeEmpty, ShapeTwo, ShapeMany }

ListingOf(p, shape) ==
  [j \in 1..Len(shape) |-> Obj(KeyIn(p, shape[j].name, shape[j].dir),
                              shape[j].name, shape[j].dir)]

FbMounted == homeMounted /\ selectedStorage # NULL

\* the table of objects is rendered (lines 798-811)
RowsShown == FbMounted /\ ~loading /\ error = "" /\ Len(objects) > 0

\* the filter that looks at the name only
previewableFilesByName(objs) ==
  SelectSeq(objs, LAMBDA o : isPreviewable(o.name))

\* previewableFiles (line 588)
previewableFiles(objs) ==
  SelectSeq(objs, LAMBDA o : ~o.isDirectory /\ isPreviewable(o.name))

\* Array.prototype.findIndex by key, 0-based, -1 when absent
FindIndexByKey(files, key) ==
  IF \E j \in 1..Len(files) : files[j].key = key
  THEN (CHOOSE j \in 1..Len(files) :
          /\ files[j].key = key
          /\ \A m \in 1..(j - 1) : files[m].key # key) - 1
  ELSE -1

\* currentPreviewIndex (line 589)
currentPreviewIndex(pf, objs) ==
  IF pf # NULL THEN FindIndexByKey(previewableFiles(objs), pf.key) ELSE -1

\* What handlePrevPreview / handleNextPreview of one render close over
NavClosure(pf, objs) ==
  [files |-> previewableFiles(objs), idx |-> currentPreviewIndex(pf, objs)]

\* The props FileBrowser passes to FilePreview (lines 903-912)
PreviewProps(pf, objs) ==
  LET c == NavClosure(pf, objs)
  IN  [onClose |-> "setPreviewFile(null)", onPrev |-> c, onNext |-> c,
       hasPrev |-> c.idx > 0, hasNext |-> c.idx < Len(c.files) - 1]

\* dependency array that leaves the callbacks out
DepsChangedFlagsOnly(a, b) ==
  a.hasPrev # b.hasPrev \/ a.hasNext # b.hasNext

\* the dependency array of the keyboard effect (line 42)
DepsChanged(a, b) ==
  \/ a.onClose # b.onClose \/ a.onPrev # b.onPrev \/ a.onNext # b.onNext
  \/ a.hasPrev # b.hasPrev \/ a.hasNext # b.hasNext

\* The keyboard effect of FilePreview after a render (lines 29-42): on mount
\* the listener is added; when a dependency changed the cleanup removes the
\* old listener and a new one, closing over the new props, is added; on
\* unmount the cleanup removes it. A listener is the props it closes over.
KeyEffect(old, pf, objs) ==
  IF pf = NULL THEN << >>
  ELSE LET props == PreviewProps(pf, objs)
       IN  IF old = << >> THEN << props >>
           ELSE IF DepsChanged(old[Len(old)], props)
                THEN Append(SubSeq(old, 1, Len(old) - 1), props)
                ELSE old

\* handlePrevPreview of closure c (lines 597-601): the file to preview
PrevWith(c, pf) == IF c.idx > 0 THEN c.files[c.idx] ELSE pf

\* handleNextPreview of closure c (lines 603-607)
NextWith(c, pf) == IF c.idx < Len(c.files) - 1 THEN c.files[c.idx + 2] ELSE pf

\* fileUrl (FilePreview line 26)
FileUrl(st, pf) == [sid |-> st.id, key |-> pf.key]

\* the effect of TextViewer after a render with a new url (FilePreview lines
\* 449-465): setLoading(true) and the fetch; content and error are left as
\* they are
TextViewerEffect(old, url) == [old EXCEPT !.url = url, !.loading = TRUE]

\* FilePreview is rendered for file pf of storage st (FilePreview lines
\* 103-105). TextViewer is mounted for a text or code file, with the useState
\* initial values (lines 444-446), and its effect fetches the url; while it
\* stays mounted the effect runs again when the url changed; it is unmounted
\* for any other file, and what its fetches answer then has no effect.
TextViewerRender(pf, st) ==
  IF pf = NULL \/ PreviewBodies(getFileType(pf.name)) # << "TextViewer" >>
  THEN /\ textViewer' = NULL
       /\ textFetches' = << >>
  ELSE IF textViewer = NULL
  THEN /\ textViewer' = TextViewerEffect([url |-> NULL, content |-> EmptyStr,
                                          loading |-> TRUE, error |-> ""],
                                         FileUrl(st, pf))
       /\ textFetches' = << FileUrl(st, pf) >>
  ELSE IF textViewer.url = FileUrl(st, pf)
  THEN UNCHANGED << textViewer, textFetches >>
  ELSE /\ Len(textFetches) < MaxInFlight
       /\ textViewer' = TextViewerEffect(textViewer, FileUrl(st, pf))
       /\ textFetches' = Append(textFetches, FileUrl(st, pf))

\* loadFiles called by a handler of a live FileBrowser (lines 418-419)
LoadingStarts ==
  /\ loading' = TRUE
  /\ error' = ""

\* The user picks a storage (line 1110). FileBrowser is mounted, or, when one
\* is mounted already, re-rendered with the new storage: its state is kept,
\* both effects (lines 409-415) run with the path of that render, and the
\* path reset re-renders and runs loadFiles once more.
SelectStorage(s) ==
  /\ homeMounted
  /\ InSeq(storages, s)
  /\ selectedStorage' = s
  /\ IF selectedStorage # NULL /\ selectedStorage.id = s.id
     THEN UNCHANGED << fbVars, netVars >>
     ELSE /\ Len(inflight) + (IF path = EmptyStr THEN 1 ELSE 2) <= MaxInFlight
          /\ inflight' =
               IF path = EmptyStr
               THEN Append(inflight, ListReq(s.id, EmptyStr, TRUE))
               ELSE inflight \o << ListReq(s.id, path, TRUE),
                                  ListReq(s.id, EmptyStr, TRUE) >>
          /\ path' = EmptyStr
          /\ LoadingStarts
          /\ TextViewerRender(previewFile, s)
          /\ UNCHANGED << objects, folderVars, offlineVars, previewFile,
                          keyListeners, uploadProgress, uploads >>
  /\ event' = Ev("SelectStorage", "")
  /\ UNCHANGED << isAdmin, storages, showLogin, showStorageForm, editingStorage,
                  showAnnouncement, formVars, outerVars >>

\* setPath(p) in a handler of the mounted FileBrowser: a changed path
\* re-renders and the effect (lines 413-415) calls loadFiles
SetPath(p) ==
  /\ path' = p
  /\ IF p # path
     THEN /\ Len(inflight) < MaxInFlight
          /\ inflight' = Append(inflight, ListReq(selectedStorage.id, p, TRUE))
          /\ LoadingStarts
     ELSE UNCHANGED << inflight, loading, error >>
  /\ UNCHANGED << objects, folderVars, offlineVars, previewVars, uploadProgress,
                  uploads, homeVars, formVars, outerVars >>

\* navigateTo (lines 437-439) from a directory row (line 826)
OpenDirectory(obj) ==
  /\ RowsShown
  /\ InSeq(objects, obj) /\ obj.isDirectory
  /\ SetPath(StripSlashes(obj.key))
  /\ event' = Ev("navigateTo", "row")

\* navigateTo from breadcrumb i, 0-based (line 635)
ClickBreadcrumb(i) ==
  /\ FbMounted
  /\ LET breadcrumbs == IF path # EmptyStr THEN FilterBoolean(Split(path, "/"))
                        ELSE << >>
     IN  /\ i \in 0..(Len(breadcrumbs) - 1)
         /\ SetPath(StripSlashes(Join(SubSeq(breadcrumbs, 1, i + 1), "/")))
  /\ event' = Ev("navigateTo breadcrumb", ToString(i))

\* the storage name in the toolbar (line 628)
ClickRoot ==
  /\ FbMounted
  /\ SetPath(EmptyStr)
  /\ event' = Ev("setPath", "root")

\* goUp (lines 441-445)
GoUp ==
  /\ FbMounted
  /\ path # EmptyStr
  /\ LET parts == FilterBoolean(Split(path, "/"))
     IN  SetPath(Join(SubSeq(parts, 1, Len(parts) - 1), "/"))
  /\ event' = Ev("goUp", "")

\* "刷新" (line 649)
ClickRefresh ==
  /\ FbMounted
  /\ Len(inflight) < MaxInFlight
  /\ inflight' = Append(inflight, ListReq(selectedStorage.id, path, TRUE))
  /\ LoadingStarts
  /\ event' = Ev("loadFiles", "refresh")
  /\ UNCHANGED << path, objects, folderVars, offlineVars, previewVars,
                  uploadProgress, uploads, homeVars, formVars, outerVars >>

\* ?action=list answers with the entries of a directory
Listing(r, shape) == [kind |-> "ok", objects |-> ListingOf(r.key, shape), error |-> ""]

\* ?action=list answers with an error status, or the fetch fails
ListFailures ==
  { [kind |-> "fail", objects |-> << >>, error |-> e] : e \in {"", "denied"} }
    \cup { [kind |-> "neterr", objects |-> << >>, error |-> ""] }

\* What ?action=list may answer for request r
ListResponses(r) == { Listing(r, sh) : sh \in Shapes } \cup ListFailures

\* loadFiles after the fetch (lines 423-434)
ListDone(i, resp) ==
  /\ homeMounted
  /\ i \in 1..Len(inflight) /\ inflight[i].op = "list"
  /\ inflight' = RemoveAt(inflight, i)
  /\ IF inflight[i].live
     THEN /\ objects' = (IF resp.kind = "ok" THEN resp.objects ELSE objects)
          /\ error' = (IF resp.kind = "ok" THEN error
                       ELSE IF resp.kind = "fail" THEN OrDefault(resp.error, "load failed")
                       ELSE "network error")
          /\ loading' = FALSE
          /\ keyListeners' = KeyEffect(keyListeners, previewFile, objects')
     ELSE UNCHANGED << objects, error, loading, keyListeners >>
  /\ event' = Ev("ListDone", resp.kind)
  /\ UNCHANGED << path, previewFile, textViewer, textFetches, folderVars, offlineVars, uploadProgress,
                  uploads, homeVars, formVars, outerVars >>

\* ------------------------------------------------------------------------
\* FileBrowser and FilePreview: preview
\* ------------------------------------------------------------------------

\* setPreviewFile(pf) and the render of FilePreview that follows
SetPreviewFile(pf) ==
  /\ previewFile' = pf
  /\ keyListeners' = KeyEffect(keyListeners, pf, objects)
  /\ TextViewerRender(pf, selectedStorage)
  /\ UNCHANGED << listVars, folderVars, offlineVars, uploadProgress, netVars,
                  homeVars, formVars, outerVars >>

\* the text served for a url
TextAt(url) == << ToString(url.sid) >> \o url.key

\* what the fetch of TextViewer may end as: a 2xx status, another status, or
\* a rejected fetch
TextOutcomes == {"ok", "fail", "neterr"}

\* fetchContent after the fetch (FilePreview lines 453-461)
TextDone(i, resp) ==
  /\ FbMounted /\ textViewer # NULL
  /\ i \in 1..Len(textFetches)
  /\ textFetches' = RemoveAt(textFetches, i)
  /\ textViewer' =
       IF resp = "ok"
       THEN [textViewer EXCEPT !.content = TextAt(textFetches[i]), !.loading = FALSE]
       ELSE [textViewer EXCEPT !.error = (IF resp = "fail" THEN "Failed to fetch file"
                                          ELSE "Failed to fetch"),
                               !.loading = FALSE]
  /\ event' = Ev("TextDone", resp)
  /\ UNCHANGED << previewFile, keyListeners, listVars, folderVars, offlineVars,
                  uploadProgress, netVars, homeVars, formVars, outerVars >>

\* handlePreview (lines 591-595) from a file row (lines 834, 868)
HandlePreview(obj) ==
  /\ RowsShown
  /\ InSeq(objects, obj) /\ ~obj.isDirectory /\ isPreviewable(obj.name)
  /\ SetPreviewFile(IF isPreviewable(obj.name) THEN obj ELSE previewFile)
  /\ event' = Ev("handlePreview", "")

\* onClose from the "×" button or the backdrop (lines 47, 67)
ClosePreview ==
  /\ FbMounted /\ previewFile # NULL
  /\ SetPreviewFile(NULL)
  /\ event' = Ev("onClose", "click")

\* the "‹" button (lines 81-88)
ClickPrev ==
  /\ FbMounted /\ previewFile # NULL
  /\ PreviewProps(previewFile, objects).hasPrev
  /\ SetPreviewFile(PrevWith(NavClosure(previewFile, objects), previewFile))
  /\ event' = Ev("handlePrevPreview", "click")

\* the "›" button (lines 89-96)
ClickNext ==
  /\ FbMounted /\ previewFile # NULL
  /\ PreviewProps(previewFile, objects).hasNext
  /\ SetPreviewFile(NextWith(NavClosure(previewFile, objects), previewFile))
  /\ event' = Ev("handleNextPreview", "click")

Keys == {"Escape", "ArrowLeft", "ArrowRight", "Enter"}

\* handleKeyDown of one registered listener l (lines 30-38): the value of
\* previewFile after it ran
HandleKeyDown(l, k, pf) ==
  IF k = "Escape" THEN NULL
  ELSE IF k = "ArrowLeft" /\ l.hasPrev THEN PrevWith(l.onPrev, pf)
  ELSE IF k = "ArrowRight" /\ l.hasNext THEN NextWith(l.onNext, pf)
  ELSE pf

\* every listener registered on window runs, in registration order
RECURSIVE DispatchKey(_, _, _)
DispatchKey(ls, k, pf) ==
  IF ls = << >> THEN pf
  ELSE DispatchKey(Tail(ls), k, HandleKeyDown(Head(ls), k, pf))

\* a keydown event on window
KeyDown(k) ==
  /\ homeMounted
  /\ SetPreviewFile(DispatchKey(keyListeners, k, previewFile))
  /\ event' = Ev("keydown", k)

\* ------------------------------------------------------------------------
\* FileBrowser: delete
\* ------------------------------------------------------------------------

\* deleteFile (lines 451-454) / deleteFolder (lines 466-469) up to the fetch
DeleteObject(obj, confirmed) ==
  /\ RowsShown /\ isAdmin
  /\ InSeq(objects, obj)
  /\ IF Confirm(confirmed)
     THEN /\ Len(inflight) < MaxInFlight
          /\ inflight' = Append(inflight,
               IF obj.isDirectory
               THEN Req("rmdir", "DELETE", "/api/files", selectedStorage.id, obj.key,
                        "rmdir", NoBody, [path |-> path], TRUE)
               ELSE Req("delete", "DELETE", "/api/files", selectedStorage.id, obj.key,
                        "", NoBody, [path |-> path], TRUE))
     ELSE UNCHANGED inflight
  /\ event' = Ev(IF obj.isDirectory THEN "deleteFolder" ELSE "deleteFile",
                 IF confirmed THEN "confirmed" ELSE "declined")
  /\ UNCHANGED << fbVars, uploads, homeVars, formVars, outerVars >>

\* loadFiles() called from the continuation of a handler: the request uses
\* the storage and path the handler closed over
ReloadAfter(i) ==
  LET r == inflight[i]
  IN  /\ inflight' = Append(RemoveAt(inflight, i), ListReq(r.sid, r.clo.path, r.live))
      /\ IF r.live THEN LoadingStarts ELSE UNCHANGED << loading, error >>

\* deleteFile / deleteFolder after the fetch (lines 455-463, 470-478)
DeleteDone(i, resp) ==
  /\ homeMounted
  /\ i \in 1..Len(inflight) /\ inflight[i].op \in {"delete", "rmdir"}
  /\ IF resp = "ok"
     THEN ReloadAfter(i)
     ELSE /\ inflight' = RemoveAt(inflight, i)
          /\ UNCHANGED << loading, error >>
  /\ event' = Ev("DeleteDone", resp)
  /\ UNCHANGED << path, objects, folderVars, offlineVars, previewVars,
                  uploadProgress, uploads, homeVars, formVars, outerVars >>

\* ------------------------------------------------------------------------
\* FileBrowser: upload
\* ------------------------------------------------------------------------

\* Largest number of files picked for one upload
MaxFiles == 2

\* Largest number of upload batches in progress
MaxBatches == 1

UFile(name, type) == [name |-> name, type |-> type]

FilePool ==
  { UFile(<<"x",".","t","x","t">>, "text/plain"),
    UFile(<<"z">>, "") }

\* e.target.files: distinct files in selection order
FileSelections ==
  { q \in UNION { [1..n -> FilePool] : n \in 0..MaxFiles } :
      \A i, j \in 1..Len(q) : i # j => q[i] # q[j] }

\* uploadPath (line 487)
UploadPath(p, name) == IF p # EmptyStr THEN p \o << "/" >> \o name ELSE name

\* the XMLHttpRequest for file k of batch b (lines 490-516)
PutReq(b, k) ==
  Req("put", "PUT", "/api/files", b.sid, UploadPath(b.path, b.files[k].name), "",
      [file |-> b.files[k]], [batch |-> b.id, index |-> k, path |-> b.path], b.live)

\* every file sent at once, none awaited
FirstPutsAllAtOnce(b) == [k \in 1..Len(b.files) |-> PutReq(b, k)]

\* the requests handleUpload sends before its first await: the PUT of the
\* first file (lines 485-517)
FirstPuts(b) == << PutReq(b, 1) >>

BatchOf(id) == CHOOSE j \in 1..Len(uploads) : uploads[j].id = id

\* what the PUT of one file may end as: a 2xx status, another status, or
\* xhr.onerror
PutOutcomes == {"ok", "fail", "neterr"}

\* only a successful upload lets the loop go on
CatchNothing(resp) == resp = "ok"

\* try / catch around one file (lines 486, 518-520): a rejected upload is
\* caught and reported with alert, whatever it was rejected with
CatchUploadError(resp) == TRUE

\* handleUpload up to the first await (lines 481-517). The handler closes
\* over the storage and the path of the render it was created in.
HandleUpload(files) ==
  /\ FbMounted /\ isAdmin
  /\ uploadProgress = NULL
  /\ IF Len(files) = 0
     THEN UNCHANGED netVars
     ELSE /\ Len(uploads) < MaxBatches
          /\ LET id == CHOOSE n \in 1..MaxBatches :
                         \A j \in 1..Len(uploads) : uploads[j].id # n
                 b == [id |-> id, sid |-> selectedStorage.id, path |-> path,
                       files |-> files, k |-> 1, live |-> TRUE]
             IN  /\ Len(inflight) + Len(FirstPuts(b)) <= MaxInFlight
                 /\ inflight' = inflight \o FirstPuts(b)
                 /\ uploads' = Append(uploads, b)
  /\ event' = Ev("handleUpload", IF Len(files) = 0 THEN "no files" ELSE "files")
  /\ UNCHANGED << fbVars, homeVars, formVars, outerVars >>

\* xhr.upload.onprogress with a computable length (lines 492-497)
PutProgress(i, percent) ==
  /\ homeMounted
  /\ i \in 1..Len(inflight) /\ inflight[i].op = "put"
  /\ inflight[i].live
  /\ uploadProgress # [name |-> inflight[i].body.file.name, progress |-> percent]
  /\ uploadProgress' = [name |-> inflight[i].body.file.name, progress |-> percent]
  /\ event' = Ev("onprogress", "")
  /\ UNCHANGED << listVars, folderVars, offlineVars, previewVars, netVars,
                  homeVars, formVars, outerVars >>

\* xhr.onload / xhr.onerror and the rest of the loop body (lines 499-521);
\* after the last file, lines 522-524
PutDone(i, resp) ==
  /\ homeMounted
  /\ i \in 1..Len(inflight) /\ inflight[i].op = "put"
  /\ \E j \in 1..Len(uploads) : uploads[j].id = inflight[i].clo.batch
  /\ LET r == inflight[i]
         j == BatchOf(r.clo.batch)
         b == uploads[j]
     IN  IF ~CatchUploadError(resp)
         THEN /\ uploads' = RemoveAt(uploads, j)
              /\ inflight' = RemoveAt(inflight, i)
              /\ UNCHANGED << uploadProgress, loading, error >>
         ELSE IF r.clo.index < Len(b.files)
         THEN /\ uploads' = [uploads EXCEPT ![j].k = r.clo.index + 1]
              /\ inflight' = Append(RemoveAt(inflight, i), PutReq(b, r.clo.index + 1))
              /\ UNCHANGED << uploadProgress, loading, error >>
         ELSE /\ uploads' = RemoveAt(uploads, j)
              /\ uploadProgress' = (IF b.live THEN NULL ELSE uploadProgress)
              /\ inflight' = Append(RemoveAt(inflight, i), ListReq(b.sid, b.path, b.live))
              /\ IF b.live THEN LoadingStarts ELSE UNCHANGED << loading, error >>
  /\ event' = Ev("PutDone", resp)
  /\ UNCHANGED << path, objects, folderVars, offlineVars, previewVars,
                  homeVars, formVars, outerVars >>

\* ------------------------------------------------------------------------
\* FileBrowser: new folder and offline download
\* ------------------------------------------------------------------------

FolderNames == { EmptyStr, << " " >>, << "n" >>, << " ", "n", " " >> }
OfflineUrls == { EmptyStr, << " " >>, << "u" >>, << " ", "u", " " >> }
OfflineNames == { EmptyStr, << " " >>, << "f" >>, << "f", " " >> }

\* "+ 文件夹" (line 655)
OpenNewFolder ==
  /\ FbMounted /\ isAdmin
  /\ ~showNewFolderInput
  /\ showNewFolderInput' = TRUE
  /\ event' = Ev("OpenNewFolder", "")
  /\ UNCHANGED << newFolderName, creatingFolder, listVars, offlineVars,
                  previewVars, uploadProgress, netVars, homeVars, formVars,
                  outerVars >>

\* onChange of the folder name input (line 683)
TypeFolderName(v) ==
  /\ FbMounted /\ showNewFolderInput /\ ~creatingFolder
  /\ newFolderName # v
  /\ newFolderName' = v
  /\ event' = Ev("TypeFolderName", "")
  /\ UNCHANGED << showNewFolderInput, creatingFolder, listVars, offlineVars,
                  previewVars, uploadProgress, netVars, homeVars, formVars,
                  outerVars >>

\* "取消" or Escape in the new-folder panel (lines 686-689, 704-707)
CancelNewFolder ==
  /\ FbMounted /\ showNewFolderInput
  /\ showNewFolderInput' = FALSE
  /\ newFolderName' = EmptyStr
  /\ event' = Ev("CancelNewFolder", "")
  /\ UNCHANGED << creatingFolder, listVars, offlineVars, previewVars,
                  uploadProgress, netVars, homeVars, formVars, outerVars >>

\* handleCreateFolder up to the fetch (lines 527-535), from "创建" or Enter
HandleCreateFolder ==
  /\ FbMounted /\ showNewFolderInput /\ ~creatingFolder
  /\ IF Trim(newFolderName) = EmptyStr
     THEN UNCHANGED << creatingFolder, inflight >>
     ELSE /\ Len(inflight) < MaxInFlight
          /\ creatingFolder' = TRUE
          /\ inflight' = Append(inflight,
               Req("mkdir", "POST", "/api/files", selectedStorage.id,
                   UploadPath(path, Trim(newFolderName)), "mkdir", NoBody,
                   [path |-> path], TRUE))
  /\ event' = Ev("handleCreateFolder", "")
  /\ UNCHANGED << showNewFolderInput, newFolderName, listVars, offlineVars,
                  previewVars, uploadProgress, uploads, homeVars, formVars,
                  outerVars >>

\* handleCreateFolder after the fetch (lines 537-549)
MkdirDone(i, resp) ==
  /\ homeMounted
  /\ i \in 1..Len(inflight) /\ inflight[i].op = "mkdir"
  /\ IF resp = "ok"
     THEN /\ ReloadAfter(i)
          /\ IF inflight[i].live
             THEN /\ newFolderName' = EmptyStr
                  /\ showNewFolderInput' = FALSE
             ELSE UNCHANGED << newFolderName, showNewFolderInput >>
     ELSE /\ inflight' = RemoveAt(inflight, i)
          /\ UNCHANGED << loading, error, newFolderName, showNewFolderInput >>
  /\ creatingFolder' = (IF inflight[i].live THEN FALSE ELSE creatingFolder)
  /\ event' = Ev("MkdirDone", resp)
  /\ UNCHANGED << path, objects, offlineVars, previewVars, uploadProgress,
                  uploads, homeVars, formVars, outerVars >>

\* "离线下载" (line 661)
OpenOffline ==
  /\ FbMounted /\ isAdmin
  /\ ~showOfflineDownload
  /\ showOfflineDownload' = TRUE
  /\ event' = Ev("OpenOffline", "")
  /\ UNCHANGED << offlineUrl, offlineFilename, offlineDownloading, listVars,
                  folderVars, previewVars, uploadProgress, netVars, homeVars,
                  formVars, outerVars >>

\* onChange of the URL input (line 725)
TypeOfflineUrl(v) ==
  /\ FbMounted /\ showOfflineDownload /\ ~offlineDownloading
  /\ offlineUrl # v
  /\ offlineUrl' = v
  /\ event' = Ev("TypeOfflineUrl", "")
  /\ UNCHANGED << showOfflineDownload, offlineFilename, offlineDownloading,
                  listVars, folderVars, previewVars, uploadProgress, netVars,
                  homeVars, formVars, outerVars >>

\* onChange of the file name input (line 737)
TypeOfflineFilename(v) ==
  /\ FbMounted /\ showOfflineDownload /\ ~offlineDownloading
  /\ offlineFilename # v
  /\ offlineFilename' = v
  /\ event' = Ev("TypeOfflineFilename", "")
  /\ UNCHANGED << showOfflineDownload, offlineUrl, offlineDownloading,
                  listVars, folderVars, previewVars, uploadProgress, netVars,
                  homeVars, formVars, outerVars >>

\* "取消" or Escape in the offline-download panel (lines 743-747, 758-763)
CancelOffline ==
  /\ FbMounted /\ showOfflineDownload /\ ~offlineDownloading
  /\ showOfflineDownload' = FALSE
  /\ offlineUrl' = EmptyStr
  /\ offlineFilename' = EmptyStr
  /\ event' = Ev("CancelOffline", "")
  /\ UNCHANGED << offlineDownloading, listVars, folderVars, previewVars,
                  uploadProgress, netVars, homeVars, formVars, outerVars >>

\* the body that sends the inputs as typed
OfflineBodyUntrimmed(u, f) ==
  IF f = EmptyStr THEN [url |-> u] ELSE [url |-> u, filename |-> f]

\* JSON.stringify({url, filename}) (lines 560-563): an undefined filename is
\* left out of the JSON text
OfflineBody(u, f) ==
  IF Trim(f) = EmptyStr THEN [url |-> Trim(u)]
  ELSE [url |-> Trim(u), filename |-> Trim(f)]

\* handleOfflineDownload up to the fetch (lines 552-564), from "开始下载" or
\* Enter in the file name input
HandleOfflineDownload ==
  /\ FbMounted /\ showOfflineDownload /\ ~offlineDownloading
  /\ IF Trim(offlineUrl) = EmptyStr
     THEN UNCHANGED << offlineDownloading, inflight >>
     ELSE /\ Len(inflight) < MaxInFlight
          /\ offlineDownloading' = TRUE
          /\ inflight' = Append(inflight,
               Req("fetch", "POST", "/api/files", selectedStorage.id, path, "fetch",
                   OfflineBody(offlineUrl, offlineFilename), [path |-> path], TRUE))
  /\ event' = Ev("handleOfflineDownload", "")
  /\ UNCHANGED << showOfflineDownload, offlineUrl, offlineFilename, listVars,
                  folderVars, previewVars, uploadProgress, uploads, homeVars,
                  formVars, outerVars >>

FetchOutcomes == {"success", "no success", "fail", "bad json", "neterr"}

\* an ok status is taken for success, whatever the body says
FetchOkStatus(resp) == resp \in {"success", "no success"}

\* res.ok && data.success (line 568)
FetchSucceeded(resp) == resp = "success"

\* handleOfflineDownload after the fetch (lines 566-582)
FetchDone(i, resp) ==
  /\ homeMounted
  /\ i \in 1..Len(inflight) /\ inflight[i].op = "fetch"
  /\ IF FetchSucceeded(resp)
     THEN /\ ReloadAfter(i)
          /\ IF inflight[i].live
             THEN /\ offlineUrl' = EmptyStr
                  /\ offlineFilename' = EmptyStr
                  /\ showOfflineDownload' = FALSE
             ELSE UNCHANGED << offlineUrl, offlineFilename, showOfflineDownload >>
     ELSE /\ inflight' = RemoveAt(inflight, i)
          /\ UNCHANGED << loading, error, offlineUrl, offlineFilename,
                          showOfflineDownload >>
  /\ offlineDownloading' = (IF inflight[i].live THEN FALSE ELSE offlineDownloading)
  /\ event' = Ev("FetchDone", resp)
  /\ UNCHANGED << path, objects, folderVars, previewVars, uploadProgress,
                  uploads, homeVars, formVars, outerVars >>

\* ------------------------------------------------------------------------
\* Initial states
\* ------------------------------------------------------------------------

FtIdle ==
  /\ filename = EmptyStr
  /\ ftResult = "none"

LdIdle ==
  /\ env = [DB |-> NULL, SITE_TITLE |-> "", SITE_ANNOUNCEMENT |-> ""]
  /\ authIsAdmin = FALSE
  /\ loaderData = NULL
  /\ calls = << >>

\* the browser before the page is loaded
AppIdle ==
  /\ sessionStorage = {}
  /\ homeMounted = FALSE
  /\ siteAnnouncement = ""
  /\ isAdmin = FALSE
  /\ storages = << >>
  /\ selectedStorage = NULL
  /\ showLogin = FALSE
  /\ showStorageForm = FALSE
  /\ editingStorage = NULL
  /\ showAnnouncement = FALSE
  /\ formData = BlankForm
  /\ formLoading = FALSE
  /\ formError = ""
  /\ path = EmptyStr
  /\ objects = << >>
  /\ loading = FALSE
  /\ error = ""
  /\ uploadProgress = NULL
  /\ previewFile = NULL
  /\ showNewFolderInput = FALSE
  /\ newFolderName = EmptyStr
  /\ creatingFolder = FALSE
  /\ showOfflineDownload = FALSE
  /\ offlineUrl = EmptyStr
  /\ offlineFilename = EmptyStr
  /\ offlineDownloading = FALSE
  /\ keyListeners = << >>
  /\ textViewer = NULL
  /\ textFetches = << >>
  /\ inflight = << >>
  /\ uploads = << >>
  /\ event = Ev("init", "")
  /\ annMounts = 0

\* ------------------------------------------------------------------------
\* File types: getFileType applied to a file name
\* ------------------------------------------------------------------------

Range(q) == { q[j] : j \in 1..Len(q) }

ListedExtensions ==
  Range(VIDEO_EXTENSIONS) \cup Range(AUDIO_EXTENSIONS) \cup Range(IMAGE_EXTENSIONS)
    \cup Range(PDF_EXTENSIONS) \cup Range(CODE_EXTENSIONS) \cup Range(TEXT_EXTENSIONS)

FileNames ==
  { << "a", "." >> \o e : e \in ListedExtensions } \cup
  { <<"A",".","B",".","O","G","G">>,
    <<"x",".","W","e","b","M">>,
    <<"M","a","k","e","f","i","l","e">>,
    <<"R","E","A","D","M","E">>,
    <<"a",".">>,
    <<".","e","n","v">>,
    <<"a","r","c","h","i","v","e",".","t","a","r",".","g","z">>,
    <<"c",".","z","i","p">>,
    <<"m","p","4">>,
    <<"o","g","g",".","t","x","t">>,
    <<"D","o","c","k","e","r","f","i","l","e">>,
    <<"b",".","T","X","T">>,
    <<"p",".","P","d","f">> }

\* a file name is classified (FilePreview line 25, FileBrowser line 611)
GetFileType ==
  /\ ftResult = "none"
  /\ ftResult' = getFileType(filename)
  /\ event' = Ev("getFileType", "")
  /\ UNCHANGED << filename, ldVars, appVars, annMounts >>

InitFileType ==
  /\ filename \in FileNames
  /\ ftResult = "none"
  /\ LdIdle
  /\ AppIdle

NextFileType == GetFileType

SpecFileType == InitFileType /\ [][NextFileType]_vars

\* ------------------------------------------------------------------------
\* Extensions: a file name is described by its extension
\* ------------------------------------------------------------------------

ToUpperChar(c) ==
  IF \E i \in 1..Len(LowerChars) : LowerChars[i] = c
  THEN UpperChars[CHOOSE i \in 1..Len(LowerChars) : LowerChars[i] = c]
  ELSE c

TableKeys(table) == { table[j][1] : j \in 1..Len(table) }

\* names with every known extension in lower case, in upper case and
\* capitalised, and names without '.', with an empty or an unknown extension
ExtensionNames ==
  LET exts == ListedExtensions \cup TableKeys(mimeTypes) \cup TableKeys(languages)
                \cup TableKeys(ObjectPrototype)
  IN  { << "a", "." >> \o e : e \in exts }
        \cup { << "a", "." >> \o [i \in 1..Len(e) |-> ToUpperChar(e[i])] : e \in exts }
        \cup { << "a", "." >> \o [i \in 1..Len(e) |->
                                   IF i = 1 THEN ToUpperChar(e[i]) ELSE e[i]] : e \in exts }
        \cup { <<"M","a","k","e","f","i","l","e">>,
               <<"m","a","k","e","f","i","l","e">>,
               <<"D","o","c","k","e","r","f","i","l","e">>,
               <<"c","o","n","s","t","r","u","c","t","o","r">>,
               <<"m","p","4">>,
               <<"a",".">>,
               <<".","e","n","v">>,
               <<".","E","N","V">>,
               <<"a",".","t","a","r",".","g","z">>,
               <<"a",".","T","A","R",".","g","z">>,
               <<"a",".","j","s",".","Z","I","P">>,
               <<"a",".","j","s",".","z","i","p">> }

\* a file name is described: its extension, its type (FilePreview line 25),
\* its MIME type and its language (TextViewer, FilePreview line 447)
DescribeFile ==
  /\ event = Ev("init", "")
  /\ ftResult' = [ext |-> getFileExtension(filename),
                  type |-> getFileType(filename),
                  mime |-> getMimeType(filename),
                  language |-> getCodeLanguage(filename)]
  /\ event' = Ev("describeFile", "")
  /\ UNCHANGED << filename, ldVars, appVars, annMounts >>

InitExtension ==
  /\ filename \in ExtensionNames
  /\ ftResult = "none"
  /\ LdIdle
  /\ AppIdle

NextExtension == DescribeFile

SpecExtension == InitExtension /\ [][NextExtension]_vars

\* ------------------------------------------------------------------------
\* Loader: one request
\* ------------------------------------------------------------------------

InitLoader ==
  /\ env \in Envs
  /\ authIsAdmin \in BOOLEAN
  /\ loaderData = NULL
  /\ calls = << >>
  /\ FtIdle
  /\ AppIdle

NextLoader == Loader

SpecLoader == InitLoader /\ [][NextLoader]_vars

\* ------------------------------------------------------------------------
\* Announcement: page loads within browser sessions
\* ------------------------------------------------------------------------

LoaderData(admin, sts, ann) ==
  [isAdmin |-> admin, storages |-> sts, siteTitle |-> "CList", siteAnnouncement |-> ann]

InitApp ==
  /\ AppIdle
  /\ FtIdle
  /\ LdIdle

NextAnnounce ==
  \/ \E admin \in BOOLEAN, sts \in { << >>, << Info1 >>, << Info1, Info2 >> },
        ann \in {"", "notice", "maintenance", "welcome", "outage"} :
       HomeMount(LoaderData(admin, sts, ann))
  \/ PageUnload
  \/ NewSession
  \/ CloseAnnouncement

SpecAnnounce == InitApp /\ [][NextAnnounce]_vars

\* ------------------------------------------------------------------------
\* Storage form: an administrator adds and edits storages
\* ------------------------------------------------------------------------

\* what the administrator types into the form: the secret, and the other
\* required fields of a new storage
FormEdits ==
  { << "secretAccessKey", "" >>, << "secretAccessKey", "SK2" >>,
    << "name", "alpha" >>,
    << "endpoint", "https://s3.example" >>,
    << "bucket", "b" >>,
    << "accessKeyId", "AK" >> }

NextForm ==
  \/ HomeMount(LoaderData(TRUE, << Info1 >>, ""))
  \/ \E st \in {NULL, Info1} : OpenStorageForm(st)
  \/ \E e \in FormEdits : EditForm(e[1], e[2])
  \/ FormSubmit
  \/ \E i \in 1..MaxInFlight, resp \in {"ok", "fail", "neterr"} : SaveDone(i, resp)
  \/ CancelForm
  \/ \E i \in 1..MaxInFlight, ok \in BOOLEAN :
       RefreshDone(i, ok, [storages |-> << Info1 >>, isAdmin |-> TRUE])

SpecForm == InitApp /\ [][NextForm]_vars

\* ------------------------------------------------------------------------
\* Offline download: an administrator browses and triggers offline downloads
\* ------------------------------------------------------------------------

\* the bucket browsed here: entries at the root, directory d is empty
Tree(r, shape) == Listing(r, IF r.key = EmptyStr THEN shape ELSE ShapeEmpty)

NextOffline ==
  \/ HomeMount(LoaderData(TRUE, << Info1, Info2 >>, ""))
  \/ \E s \in {Info1, Info2} : SelectStorage(s)
  \/ \E i \in 1..Len(inflight) : ListDone(i, Tree(inflight[i], ShapeTwo))
  \/ \E obj \in Range(objects) : OpenDirectory(obj)
  \/ OpenOffline
  \/ \E v \in OfflineUrls : TypeOfflineUrl(v)
  \/ \E v \in OfflineNames : TypeOfflineFilename(v)
  \/ CancelOffline
  \/ HandleOfflineDownload
  \/ \E i \in 1..Len(inflight), resp \in FetchOutcomes : FetchDone(i, resp)

SpecOffline == InitApp /\ [][NextOffline]_vars

\* ------------------------------------------------------------------------
\* Preview: a visitor browses a bucket and previews its files
\* ------------------------------------------------------------------------

NextPreview ==
  \/ HomeMount(LoaderData(FALSE, << Info1 >>, ""))
  \/ SelectStorage(Info1)
  \/ ClickRefresh
  \/ \E i \in 1..Len(inflight) :
       \E resp \in ListResponses(inflight[i]) : ListDone(i, resp)
  \/ \E obj \in Range(objects) : HandlePreview(obj)
  \/ ClosePreview
  \/ ClickPrev
  \/ ClickNext
  \/ \E k \in Keys : KeyDown(k)
  \/ \E i \in 1..Len(textFetches), resp \in TextOutcomes : TextDone(i, resp)

SpecPreview == InitApp /\ [][NextPreview]_vars

\* ------------------------------------------------------------------------
\* Delete: an administrator deletes files, folders and storages
\* ------------------------------------------------------------------------

NextDelete ==
  \/ HomeMount(LoaderData(TRUE, << Info1, Info2 >>, ""))
  \/ \E s \in {Info1, Info2} : SelectStorage(s)
  \/ \E i \in 1..Len(inflight) : ListDone(i, Tree(inflight[i], ShapeTwo))
  \/ \E obj \in Range(objects), confirmed \in BOOLEAN : DeleteObject(obj, confirmed)
  \/ \E i \in 1..Len(inflight), resp \in {"ok", "fail", "neterr"} : DeleteDone(i, resp)
  \/ \E s \in Range(storages), confirmed \in BOOLEAN : DeleteStorage(s, confirmed)
  \/ \E i \in 1..Len(inflight), resp \in {"ok", "fail", "neterr"} :
       DelStorageDone(i, resp)
  \/ \E i \in 1..Len(inflight), ok \in BOOLEAN :
       RefreshDone(i, ok, [storages |-> << Info1, Info2 >>, isAdmin |-> TRUE])

SpecDelete == InitApp /\ [][NextDelete]_vars

\* ------------------------------------------------------------------------
\* Upload: an administrator uploads files and keeps browsing
\* ------------------------------------------------------------------------

NextUpload ==
  \/ HomeMount(LoaderData(TRUE, << Info1, Info2 >>, ""))
  \/ \E s \in {Info1, Info2} : SelectStorage(s)
  \/ \E i \in 1..Len(inflight) : ListDone(i, Tree(inflight[i], ShapeTwo))
  \/ \E obj \in Range(objects) : OpenDirectory(obj)
  \/ ClickRoot
  \/ \E files \in FileSelections : HandleUpload(files)
  \/ \E i \in 1..Len(inflight), resp \in {"ok", "fail"} : PutDone(i, resp)

SpecUpload == InitApp /\ [][NextUpload]_vars

\* ------------------------------------------------------------------------
\* Batch: the files of one selection succeed or fail
\* ------------------------------------------------------------------------

NextBatch ==
  \/ HomeMount(LoaderData(TRUE, << Info1 >>, ""))
  \/ SelectStorage(Info1)
  \/ \E i \in 1..Len(inflight) : ListDone(i, Listing(inflight[i], ShapeEmpty))
  \/ \E files \in FileSelections : HandleUpload(files)
  \/ \E i \in 1..Len(inflight) : PutProgress(i, 50)
  \/ \E i \in 1..Len(inflight), resp \in PutOutcomes : PutDone(i, resp)

SpecBatch == InitApp /\ [][NextBatch]_vars

\* ------------------------------------------------------------------------
\* Folder: an administrator browses and creates folders
\* ------------------------------------------------------------------------

MkdirOutcomes == {"ok", "fail", "neterr"}

NextFolder ==
  \/ HomeMount(LoaderData(TRUE, << Info1 >>, ""))
  \/ SelectStorage(Info1)
  \/ \E i \in 1..Len(inflight) : ListDone(i, Tree(inflight[i], ShapeTwo))
  \/ \E obj \in Range(objects) : OpenDirectory(obj)
  \/ OpenNewFolder
  \/ \E v \in FolderNames : TypeFolderName(v)
  \/ CancelNewFolder
  \/ HandleCreateFolder
  \/ \E i \in 1..Len(inflight), resp \in MkdirOutcomes : MkdirDone(i, resp)

SpecFolder == InitApp /\ [][NextFolder]_vars

\* ------------------------------------------------------------------------
\* Listing: a visitor browses and refreshes while the server may fail
\* ------------------------------------------------------------------------

NextListing ==
  \/ HomeMount(LoaderData(FALSE, << Info1 >>, ""))
  \/ SelectStorage(Info1)
  \/ ClickRefresh
  \/ \E obj \in Range(objects) : OpenDirectory(obj)
  \/ ClickRoot
  \/ \E i \in 1..Len(inflight) :
       \E resp \in {Tree(inflight[i], ShapeTwo)} \cup ListFailures : ListDone(i, resp)

SpecListing == InitApp /\ [][NextListing]_vars

\* ------------------------------------------------------------------------
\* Switch: an administrator browses two storages
\* ------------------------------------------------------------------------

\* the two buckets: each has directory d at its root, and the four listings
\* differ
Bucket(r) ==
  Listing(r, IF r.sid = 1
             THEN IF r.key = EmptyStr THEN ShapeTwo
                  ELSE << Entry(<<"c",".","z","i","p">>, FALSE) >>
             ELSE IF r.key = EmptyStr
                  THEN << Entry(<<"d">>, TRUE), Entry(<<"b",".","T","X","T">>, FALSE) >>
                  ELSE ShapeEmpty)

NextSwitch ==
  \/ HomeMount(LoaderData(TRUE, << Info1, Info2 >>, ""))
  \/ \E s \in {Info1, Info2} : SelectStorage(s)
  \/ \E i \in 1..Len(inflight) : ListDone(i, Bucket(inflight[i]))
  \/ \E obj \in Range(objects) : OpenDirectory(obj)
  \/ ClickRoot
  \/ ClickRefresh

SpecSwitch == InitApp /\ [][NextSwitch]_vars

\* ------------------------------------------------------------------------
\* Viewer: a visitor previews the text and code files of a directory
\* ------------------------------------------------------------------------

\* a directory with two text or code files and a video
ShapeTexts ==
  << Entry(<<"r",".","m","d">>, FALSE),
     Entry(<<"s",".","j","s">>, FALSE),
     Entry(<<"v",".","m","p","4">>, FALSE) >>

NextViewer ==
  \/ HomeMount(LoaderData(FALSE, << Info1 >>, ""))
  \/ SelectStorage(Info1)
  \/ \E i \in 1..Len(inflight) : ListDone(i, Listing(inflight[i], ShapeTexts))
  \/ \E obj \in Range(objects) : previewFile = NULL /\ HandlePreview(obj)
  \/ ClosePreview
  \/ ClickPrev
  \/ ClickNext
  \/ \E i \in 1..Len(textFetches), resp \in TextOutcomes : TextDone(i, resp)

SpecViewer == InitApp /\ [][NextViewer]_vars

\* ------------------------------------------------------------------------

NextAdmin ==
  \/ HomeMount(LoaderData(TRUE, << Info1, Info2 >>, ""))
  \/ SelectStorage(Info1)
  \/ \E i \in 1..Len(inflight) : ListDone(i, Listing(inflight[i], ShapeEmpty))
  \/ OpenNewFolder
  \/ TypeFolderName(<< "n" >>)
  \/ HandleCreateFolder
  \/ \E i \in 1..Len(inflight), resp \in {"ok", "fail"} : MkdirDone(i, resp)
  \/ \E files \in FileSelections : HandleUpload(files)
  \/ \E i \in 1..Len(inflight) : PutDone(i, "ok")
  \/ Logout
  \/ \E i \in 1..Len(inflight), answered \in BOOLEAN : LogoutDone(i, answered)
  \/ \E confirmed \in BOOLEAN : DeleteStorage(Info2, confirmed)
  \/ \E i \in 1..Len(inflight), resp \in {"ok", "fail"} : DelStorageDone(i, resp)
  \/ \E i \in 1..Len(inflight), ok \in BOOLEAN, data \in RefreshResponses :
       RefreshDone(i, ok, data)

SpecAdmin == InitApp /\ [][NextAdmin]_vars

\* ------------------------------------------------------------------------
\* Navigation: a visitor walks through the directories of a bucket
\* ------------------------------------------------------------------------

\* the bucket browsed here: the root holds the directories d and v.mp4, each
\* of them holds a directory d, which is empty
Branch(r) ==
  Listing(r, IF r.key = EmptyStr THEN ShapeMany
             ELSE IF Len(FilterBoolean(Split(r.key, "/"))) = 1 THEN ShapeTwo
             ELSE ShapeEmpty)

NextNavigate ==
  \/ HomeMount(LoaderData(FALSE, << Info1 >>, ""))
  \/ SelectStorage(Info1)
  \/ \E i \in 1..Len(inflight) : ListDone(i, Branch(inflight[i]))
  \/ \E obj \in Range(objects) : OpenDirectory(obj)
  \/ \E i \in 0..2 : ClickBreadcrumb(i)
  \/ ClickRoot
  \/ GoUp

SpecNavigate == InitApp /\ [][NextNavigate]_vars

\* ------------------------------------------------------------------------
\* Properties
\* ------------------------------------------------------------------------

InfoFields ==
  {"id", "name", "endpoint", "region", "accessKeyId", "bucket", "basePath", "isPublic"}

\* C2: once the loader has run with a database bound, the storages it
\* returns are, one for one and in order, those of getAllStorages when
\* requireAuth reported an admin and those of getPublicStorages otherwise
\* (compared on the eight fields the loader returns), so a non-admin never
\* receives a storage that is not public; the returned isAdmin is the auth
\* result.
C2_LoaderStoragesByRole ==
  (loaderData # NULL /\ env.DB # NULL) =>
    LET rows == IF authIsAdmin THEN getAllStorages(env.DB.rows)
                ELSE getPublicStorages(env.DB.rows)
    IN  /\ loaderData.isAdmin = authIsAdmin
        /\ Len(loaderData.storages) = Len(rows)
        /\ \A j \in 1..Len(rows) :
             /\ DOMAIN loaderData.storages[j] = InfoFields
             /\ \A f \in InfoFields : loaderData.storages[j][f] = rows[j][f]
        /\ ~authIsAdmin =>
             \A j \in 1..Len(loaderData.storages) : loaderData.storages[j].isPublic

\* C2 witness: a non-admin request against a table that holds a private and
\* a public storage has been answered
C2_Witness ==
  /\ loaderData # NULL /\ env.DB # NULL
  /\ ~authIsAdmin
  /\ \E j \in 1..Len(env.DB.rows) : ~env.DB.rows[j].isPublic
  /\ Len(loaderData.storages) = 1

FileTypes == {"video", "audio", "image", "pdf", "code", "text"}

ExtensionList(t) ==
  CASE t = "video" -> VIDEO_EXTENSIONS
    [] t = "audio" -> AUDIO_EXTENSIONS
    [] t = "image" -> IMAGE_EXTENSIONS
    [] t = "pdf" -> PDF_EXTENSIONS
    [] t = "code" -> CODE_EXTENSIONS
    [] t = "text" -> TEXT_EXTENSIONS

\* the file types whose extension list holds ext
ListsHolding(ext) == { t \in FileTypes : Includes(ExtensionList(t), ext) }

\* every order in which the six lists can be checked
CheckOrders ==
  { q \in [1..6 -> FileTypes] : \A i, j \in 1..6 : i # j => q[i] # q[j] }

\* the type found when the lists are checked in the given order
TypeInOrder(order, ext) ==
  IF \E j \in 1..6 : Includes(ExtensionList(order[j]), ext)
  THEN order[CHOOSE j \in 1..6 :
               /\ Includes(ExtensionList(order[j]), ext)
               /\ \A m \in 1..(j - 1) : ~Includes(ExtensionList(order[m]), ext)]
  ELSE "unknown"

Ogg == << "o", "g", "g" >>
Webm == << "w", "e", "b", "m" >>

\* C4 as claimed: the extension of every classified name is in at most one
\* of the six lists, and checking the lists in any order gives the type
\* getFileType gave.
C4_ListsPairwiseDisjoint ==
  ftResult # "none" =>
    LET ext == getFileExtension(filename)
    IN  /\ Cardinality(ListsHolding(ext)) <= 1
        /\ \A order \in CheckOrders : TypeInOrder(order, ext) = ftResult

\* C4 amended: the lists are pairwise disjoint except for 'ogg' and 'webm',
\* which are in the video and in the audio list; getFileType returns the
\* type of a list that holds the extension ('unknown' when none does), for
\* 'ogg' and 'webm' it returns 'video', and for every other extension the
\* result is the same in whatever order the lists are checked.
C4_LookupTableExceptOggWebm ==
  ftResult # "none" =>
    LET ext == getFileExtension(filename)
        holding == ListsHolding(ext)
    IN  /\ (holding = {}) <=> (ftResult = "unknown")
        /\ holding # {} => ftResult \in holding
        /\ Cardinality(holding) > 1 =>
             /\ ext \in {Ogg, Webm}
             /\ holding = {"video", "audio"}
             /\ ftResult = "video"
        /\ ext \notin {Ogg, Webm} =>
             \A order \in CheckOrders : TypeInOrder(order, ext) = ftResult

\* C4 witness: a name whose extension is in two lists has been classified
C4_Witness ==
  /\ ftResult = "video"
  /\ getFileExtension(filename) = Ogg
  /\ filename # ToLowerCase(filename)

\* a page load: Home goes from not mounted to mounted
MountStep == ~homeMounted /\ homeMounted'

\* C5: the mount of Home with a non-empty announcement that is the first
\* such mount of the browser session opens the modal and sets
\* 'announcement_shown' in sessionStorage; every later such mount of the
\* session leaves it closed; a mount with an empty announcement leaves it
\* closed and the session storage as it was; the modal never opens at any
\* other moment.
C5_AnnouncementFirstVisitOnly ==
  /\ [][MountStep =>
          /\ (siteAnnouncement' # "" /\ annMounts = 0) =>
               /\ showAnnouncement'
               /\ GetItem(sessionStorage', "announcement_shown") = "true"
          /\ (siteAnnouncement' # "" /\ annMounts > 0) => ~showAnnouncement'
          /\ siteAnnouncement' = "" =>
               /\ ~showAnnouncement'
               /\ sessionStorage' = sessionStorage]_vars
  /\ [][(~showAnnouncement /\ showAnnouncement') => MountStep]_vars
  /\ [](siteAnnouncement = "" => ~showAnnouncement)

\* C5 witness: the second mount with an announcement in one session has run
\* and the modal is closed
C5_Witness ==
  /\ homeMounted /\ event.h = "HomeMount"
  /\ annMounts = 2
  /\ siteAnnouncement = "maintenance"
  /\ ~showAnnouncement
  /\ GetItem(sessionStorage, "announcement_shown") = "true"

\* the step sends a save request of the storage form
SaveSent ==
  /\ event'.h = "StorageModal.handleSubmit"
  /\ inflight' # inflight

\* C6: the request the storage form sends is, when a storage is edited, a
\* PUT whose body has the id of that storage and has the field
\* secretAccessKey exactly when the secret input is non-empty (then with the
\* input's value); when a storage is created, a POST whose body has the
\* entered secretAccessKey and no id.
C6_SecretLeftBlankIsKept ==
  [][SaveSent =>
       LET r == inflight'[Len(inflight')]
       IN  /\ inflight' = Append(inflight, r)
           /\ r.api = "/api/storages"
           /\ IF editingStorage # NULL
              THEN /\ r.method = "PUT"
                   /\ "id" \in DOMAIN r.body /\ r.body.id = editingStorage.id
                   /\ ("secretAccessKey" \in DOMAIN r.body)
                        <=> (formData.secretAccessKey # "")
                   /\ "secretAccessKey" \in DOMAIN r.body =>
                        r.body.secretAccessKey = formData.secretAccessKey
              ELSE /\ r.method = "POST"
                   /\ "id" \notin DOMAIN r.body
                   /\ "secretAccessKey" \in DOMAIN r.body
                   /\ r.body.secretAccessKey = formData.secretAccessKey
                   /\ r.body.secretAccessKey # ""]_vars

\* C6 witness: an edit was submitted with the secret input left blank
C6_Witness ==
  /\ event.h = "StorageModal.handleSubmit"
  /\ editingStorage # NULL
  /\ formData.secretAccessKey = ""
  /\ Len(inflight) > 0
  /\ inflight[Len(inflight)].method = "PUT"
  /\ "secretAccessKey" \notin DOMAIN inflight[Len(inflight)].body

\* ------------------------------------------------------------------------
\* C3
\* ------------------------------------------------------------------------

Whitespace == { " " }

AllWhitespace(q) == \A j \in 1..Len(q) : q[j] \in Whitespace

\* t is u without its leading and trailing whitespace
IsTrimmed(t, u) ==
  /\ t = EmptyStr \/ (t[1] \notin Whitespace /\ t[Len(t)] \notin Whitespace)
  /\ \E a \in 0..Len(u) :
       /\ a + Len(t) <= Len(u)
       /\ SubSeq(u, a + 1, a + Len(t)) = t
       /\ AllWhitespace(SubSeq(u, 1, a))
       /\ AllWhitespace(SubSeq(u, a + Len(t) + 1, Len(u)))

Blank(u) == AllWhitespace(u)

\* the request the step sent: the one appended to the requests in flight
Sent == inflight'[Len(inflight')]

SentOne ==
  /\ Len(inflight') = Len(inflight) + 1
  /\ SubSeq(inflight', 1, Len(inflight)) = inflight

\* C3: handleOfflineDownload sends exactly one POST to
\* /api/files/{storage.id}/{path}?action=fetch for the selected storage and
\* the current path, with body url = the trimmed URL and filename = the
\* trimmed name, absent when the name is blank; with a blank URL it sends
\* nothing and changes no state.
C3_OfflineDownloadTrigger ==
  [][event'.h = "handleOfflineDownload" =>
       IF Blank(offlineUrl)
       THEN UNCHANGED appVars
       ELSE /\ SentOne
            /\ Sent.method = "POST" /\ Sent.api = "/api/files"
            /\ Sent.sid = selectedStorage.id /\ Sent.key = path
            /\ Sent.action = "fetch"
            /\ IsTrimmed(Sent.body.url, offlineUrl)
            /\ IF Blank(offlineFilename)
               THEN DOMAIN Sent.body = {"url"}
               ELSE /\ DOMAIN Sent.body = {"url", "filename"}
                    /\ IsTrimmed(Sent.body.filename, offlineFilename)
            /\ uploads' = uploads]_vars

\* an offline download of " u " with a blank name, triggered in directory d
\* of storage 2, is in flight
C3_Witness ==
  /\ event.h = "handleOfflineDownload"
  /\ offlineUrl = << " ", "u", " " >> /\ offlineFilename = << " " >>
  /\ path = << "d" >> /\ selectedStorage = Info2
  /\ inflight # << >> /\ inflight[Len(inflight)].op = "fetch"

\* the handler was invoked with a blank URL
C3_WitnessBlank ==
  /\ event.h = "handleOfflineDownload"
  /\ offlineUrl = << " " >> /\ showOfflineDownload

\* ------------------------------------------------------------------------
\* C7
\* ------------------------------------------------------------------------

\* the listed objects that are files of a previewable type, in listing order
PreviewList ==
  SelectSeq(objects, LAMBDA o : ~o.isDirectory /\ getFileType(o.name) # "unknown")

\* the 1-based positions of the previewed file in that list
PreviewPositions ==
  IF previewFile = NULL THEN {}
  ELSE { j \in 1..Len(PreviewList) : PreviewList[j].key = previewFile.key }

\* where onPrev / onNext must lead from position j
PrevTarget(j) == IF j > 1 THEN PreviewList[j - 1] ELSE previewFile
NextTarget(j) == IF j < Len(PreviewList) THEN PreviewList[j + 1] ELSE previewFile

\* C7: with the previewed file at position i of the previewable files (the
\* listed non-directories of a previewable type, in listing order), hasPrev
\* iff it is not the first and hasNext iff it is not the last; onPrev leads
\* to the file before it and onNext to the file after it, each leaves the
\* preview alone at its end, and the file reached is never a directory or a
\* file that cannot be previewed.
C7_PreviewNavigation ==
  /\ [](\A j \in PreviewPositions :
         LET props == PreviewProps(previewFile, objects)
         IN  /\ props.hasPrev <=> j > 1
             /\ props.hasNext <=> j < Len(PreviewList)
             /\ PrevWith(props.onPrev, previewFile) = PrevTarget(j)
             /\ NextWith(props.onNext, previewFile) = NextTarget(j)
             /\ \A t \in {PrevTarget(j), NextTarget(j)} :
                  ~t.isDirectory /\ getFileType(t.name) # "unknown")
  /\ [][\A j \in PreviewPositions :
          /\ event'.h = "handlePrevPreview" => previewFile' = PrevTarget(j)
          /\ event'.h = "handleNextPreview" => previewFile' = NextTarget(j)
          /\ event'.h \in {"handlePrevPreview", "handleNextPreview"} =>
               UNCHANGED << objects, path, inflight >>]_vars

\* onNext has just moved the preview from the second to the third of four
\* previewable files, past a directory and a file that cannot be previewed
C7_Witness ==
  /\ event.h = "handleNextPreview"
  /\ Len(PreviewList) = 4
  /\ previewFile = PreviewList[3]
  /\ Len(objects) = 7

\* ------------------------------------------------------------------------
\* C8
\* ------------------------------------------------------------------------

\* FilePreview is rendered (line 902)
PreviewMounted == homeMounted /\ selectedStorage # NULL /\ previewFile # NULL

DeleteHandlers == {"deleteFile", "deleteFolder", "handleDeleteStorage"}

\* the number of requests of kind op awaiting their response
Count(q, ops) == Cardinality({ j \in 1..Len(q) : q[j].op \in ops })

\* C9: deleteFile, deleteFolder and handleDeleteStorage send nothing and
\* change no state when the confirmation is declined; confirmed, they send
\* exactly one DELETE request; the listing (the storage list) is requested
\* again after the response only if the response is ok, and then it is.
C9_DeleteRequiresConfirmation ==
  [][/\ (event'.h \in DeleteHandlers /\ event'.arg = "declined") =>
          UNCHANGED appVars
     /\ (event'.h \in DeleteHandlers /\ event'.arg = "confirmed") =>
          /\ SentOne /\ Sent.method = "DELETE"
          /\ Sent.api = (IF event'.h = "handleDeleteStorage"
                         THEN "/api/storages" ELSE "/api/files")
          /\ Sent.action = (IF event'.h = "deleteFolder" THEN "rmdir" ELSE "")
          /\ UNCHANGED << sessVars, homeVars, formVars, fbVars, uploads >>
     /\ event'.h = "DeleteDone" =>
          /\ Count(inflight', {"delete", "rmdir"}) = Count(inflight, {"delete", "rmdir"}) - 1
          /\ Count(inflight', {"list"}) =
               Count(inflight, {"list"}) + (IF event'.arg = "ok" THEN 1 ELSE 0)
          /\ Len(inflight') = Len(inflight) + (IF event'.arg = "ok" THEN 0 ELSE -1)
          /\ objects' = objects
     /\ event'.h = "DelStorageDone" =>
          /\ Count(inflight', {"delStorage"}) = Count(inflight, {"delStorage"}) - 1
          /\ Count(inflight', {"refresh"}) =
               Count(inflight, {"refresh"}) + (IF event'.arg = "ok" THEN 1 ELSE 0)
          /\ Len(inflight') = Len(inflight) + (IF event'.arg = "ok" THEN 0 ELSE -1)
          /\ storages' = storages]_vars

\* a confirmed folder deletion was answered ok and the listing is being
\* reloaded
C9_Witness ==
  /\ event = Ev("DeleteDone", "ok")
  /\ Count(inflight, {"list"}) = 1
  /\ loading

\* a deletion was declined
C9_WitnessDeclined ==
  /\ event.h \in DeleteHandlers /\ event.arg = "declined"
  /\ Len(objects) = 2

\* ------------------------------------------------------------------------
\* C10
\* ------------------------------------------------------------------------

\* the PUT requests of batch b awaiting their response
PutsOf(q, b) == { j \in 1..Len(q) : q[j].op = "put" /\ q[j].clo.batch = b.id }

\* {path}/{file.name}, or file.name at the root
TargetKey(p, name) == IF p = EmptyStr THEN name ELSE p \o << "/" >> \o name

Batches(u) == { u[j] : j \in 1..Len(u) }

SameBatch(a, b) ==
  a.id = b.id /\ a.sid = b.sid /\ a.path = b.path /\ a.files = b.files

\* C10: within one handleUpload batch the files are uploaded one at a time in
\* selection order: one PUT of the batch is in flight at any time, the PUT of
\* file k+1 is sent by the step that takes the answer to the PUT of file k,
\* and every PUT goes to {path}/{file.name} (file.name at the root) on the
\* storage and the path that were current when the batch started, wherever
\* the user has navigated since.
C10_UploadOrdering ==
  /\ [](\A b \in Batches(uploads) :
         /\ b.k \in 1..Len(b.files)
         /\ Cardinality(PutsOf(inflight, b)) = 1
         /\ \A j \in PutsOf(inflight, b) :
              /\ inflight[j].clo.index = b.k
              /\ inflight[j].method = "PUT" /\ inflight[j].api = "/api/files"
              /\ inflight[j].sid = b.sid
              /\ inflight[j].key = TargetKey(b.path, b.files[b.k].name)
              /\ inflight[j].body.file = b.files[b.k])
  /\ [][/\ \A b \in Batches(uploads') :
             IF \E a \in Batches(uploads) : a.id = b.id
             THEN \E a \in Batches(uploads) :
                    /\ SameBatch(a, b)
                    /\ \/ b.k = a.k
                       \/ /\ b.k = a.k + 1
                          /\ event'.h = "PutDone"
                          /\ \A j \in PutsOf(inflight', b) :
                               inflight'[j].clo.index = a.k + 1
             ELSE /\ event' = Ev("handleUpload", "files")
                  /\ b.k = 1 /\ b.sid = selectedStorage.id /\ b.path = path
                  /\ Len(b.files) > 0
        /\ \A a \in Batches(uploads) :
             (\A b \in Batches(uploads') : b.id # a.id) =>
               event'.h = "PutDone" /\ a.k = Len(a.files)]_vars

\* the second file of a batch started in directory d of storage 1 is being
\* uploaded while the root is displayed
C10_Witness ==
  /\ \E b \in Batches(uploads) :
       /\ b.k = 2 /\ b.path = << "d" >> /\ b.sid = 1
       /\ \E j \in PutsOf(inflight, b) :
            inflight[j].key = << "d", "/" >> \o b.files[2].name
  /\ path = EmptyStr
  /\ selectedStorage # NULL

\* ------------------------------------------------------------------------
\* C1
\* ------------------------------------------------------------------------

WriteOps == {"save", "delStorage", "put", "mkdir", "delete", "rmdir", "fetch"}

\* a request as it goes over the wire
Wire(r) == [r EXCEPT !.live = TRUE]

Copies(q, w) == Cardinality({ j \in 1..Len(q) : Wire(q[j]) = w })

\* the step sent a write request
WriteSent ==
  \E j \in 1..Len(inflight') :
    /\ inflight'[j].op \in WriteOps
    /\ Copies(inflight', Wire(inflight'[j])) > Copies(inflight, Wire(inflight'[j]))

\* C1: every write request (storage POST / PUT / DELETE on /api/storages;
\* file PUT, mkdir, DELETE and fetch on /api/files) is sent from a state in
\* which isAdmin is true.
C1_WritesOnlyWhileAdmin == [][WriteSent => isAdmin]_vars

\* ------------------------------------------------------------------------
\* C11
\* ------------------------------------------------------------------------

\* the positions of '/' in p, and the position of the n-th of them
Slashes(p) == { j \in 1..Len(p) : p[j] = "/" }

NthSlash(p, n) ==
  CHOOSE j \in Slashes(p) : Cardinality({ m \in Slashes(p) : m <= j }) = n

\* the first n segments of p joined by '/'
FirstSegments(p, n) ==
  IF Cardinality(Slashes(p)) < n THEN p ELSE SubSeq(p, 1, NthSlash(p, n) - 1)

\* p without its last segment
WithoutLastSegment(p) ==
  IF Slashes(p) = {} THEN EmptyStr
  ELSE SubSeq(p, 1, NthSlash(p, Cardinality(Slashes(p))) - 1)

\* C11: the storage-name root sets path to ''; breadcrumb i (0-based) sets
\* path to the first i+1 segments joined by '/'; goUp removes exactly the
\* last segment ('' from a one-segment path); entering a listed
\* sub-directory of the current path and then going up restores the path.
C11_BreadcrumbAndUp ==
  [][/\ event' = Ev("setPath", "root") => path' = EmptyStr
     /\ event'.h = "navigateTo breadcrumb" =>
          \E i \in 0..2 : event'.arg = ToString(i) /\ path' = FirstSegments(path, i + 1)
     /\ event'.h = "goUp" => path' = WithoutLastSegment(path)
     /\ (/\ event' = Ev("navigateTo", "row")
         /\ \E o \in Range(objects) :
              /\ o.isDirectory
              /\ o.key = (IF path = EmptyStr THEN EmptyStr ELSE path \o << "/" >>)
                           \o o.name \o << "/" >>
              /\ path' = SubSeq(o.key, 1, Len(o.key) - 1))
          => WithoutLastSegment(path') = path]_vars

\* going up from v.mp4/d has led to v.mp4
C11_Witness ==
  /\ event.h = "goUp"
  /\ path = << "v", ".", "m", "p", "4" >>

\* breadcrumb 0 was clicked in v.mp4/d
C11_WitnessBreadcrumb ==
  /\ event = Ev("navigateTo breadcrumb", "0")
  /\ path = << "v", ".", "m", "p", "4" >>

\* ------------------------------------------------------------------------
\* C12
\* ------------------------------------------------------------------------

Viewers == {"VideoPlayer", "AudioPlayer", "ImageViewer", "TextViewer", "PDFViewer"}

ListedNames == { objects[j].name : j \in 1..Len(objects) }

\* a name is previewable iff its type is known, and then its one body is a
\* viewer
ViewerFor(f) ==
  /\ isPreviewable(f) <=> getFileType(f) # "unknown"
  /\ Len(PreviewBodies(getFileType(f))) = 1
  /\ PreviewBodies(getFileType(f))[1] \in Viewers <=> isPreviewable(f)

\* does not depend on the state: evaluated before the page is loaded
ViewerForEveryName == \A f \in FileNames : ViewerFor(f)

\* C12: a file name is previewable iff its file type is not 'unknown';
\* FilePreview renders exactly one body for every file type, the download
\* fallback for 'unknown' and a viewer otherwise; so the file in preview
\* always has a viewer.
C12_PreviewableHasViewer ==
  /\ ~homeMounted => ViewerForEveryName
  /\ \A f \in ListedNames : ViewerFor(f)
  /\ PreviewBodies("unknown") = << "download" >>
  /\ previewFile # NULL =>
       /\ Len(PreviewBodies(getFileType(previewFile.name))) = 1
       /\ PreviewBodies(getFileType(previewFile.name))[1] \in Viewers

\* b.TXT was opened from its row and is shown by the text viewer, while a
\* file that cannot be previewed is listed
C12_Witness ==
  /\ event.h = "handlePreview"
  /\ previewFile # NULL
  /\ previewFile.name = << "b", ".", "T", "X", "T" >>
  /\ PreviewBodies(getFileType(previewFile.name)) = << "TextViewer" >>
  /\ \E f \in ListedNames : ~isPreviewable(f)

\* ------------------------------------------------------------------------
\* C13
\* ------------------------------------------------------------------------

Dots(f) == { j \in 1..Len(f) : f[j] = "." }

LastDot(f) == CHOOSE j \in Dots(f) : \A m \in Dots(f) : m <= j

\* g and f differ at most in the letter case of the extension
SameButExtensionCase(g, f) ==
  /\ Len(g) = Len(f)
  /\ Dots(g) = Dots(f)
  /\ Dots(f) # {}
  /\ \A j \in 1..Len(f) :
       IF j <= LastDot(f) THEN g[j] = f[j]
       ELSE ToLowerChar(g[j]) = ToLowerChar(f[j])

\* C13: getFileExtension is the lower-cased text after the last '.', and ''
\* for a name without '.'; names that differ only in the letter case of the
\* extension get the same file type, MIME type and language; a name without
\* '.' is 'unknown' / 'application/octet-stream' / 'plaintext'.
C13_ExtensionExtraction ==
  event.h = "describeFile" =>
    /\ IF Dots(filename) = {}
       THEN /\ ftResult.ext = EmptyStr
            /\ ftResult.type = "unknown"
            /\ ftResult.mime = "application/octet-stream"
            /\ ftResult.language = "plaintext"
       ELSE /\ Len(ftResult.ext) = Len(filename) - LastDot(filename)
            /\ \A j \in 1..Len(ftResult.ext) :
                 /\ ftResult.ext[j] = ToLowerChar(filename[LastDot(filename) + j])
                 /\ ftResult.ext[j] \notin Range(UpperChars)
    /\ \A g \in ExtensionNames :
         SameButExtensionCase(g, filename) =>
           /\ getFileType(g) = ftResult.type
           /\ getMimeType(g) = ftResult.mime
           /\ getCodeLanguage(g) = ftResult.language

\* 'Makefile' was described
C13_Witness ==
  /\ event.h = "describeFile"
  /\ filename = <<"M","a","k","e","f","i","l","e">>
  /\ ftResult.type = "unknown"

\* 'a.TS' was described as 'a.ts' is
C13_WitnessCase ==
  /\ event.h = "describeFile"
  /\ filename = <<"a",".","T","S">>
  /\ ftResult = [ext |-> <<"t","s">>, type |-> "code", mime |-> "text/typescript",
                  language |-> "typescript"]

\* ------------------------------------------------------------------------
\* C14
\* ------------------------------------------------------------------------

\* the list requests for directory p of storage sid awaiting their response
ListsOf(q, sid, p) ==
  { j \in 1..Len(q) : q[j].op = "list" /\ q[j].sid = sid /\ q[j].key = p }

\* C14: a failed upload of one file (non-2xx status or network error) does
\* not prevent the remaining files of the batch from being uploaded: the step
\* that takes the answer to the PUT of a file that is not the last one sends
\* the PUT of the next file whatever the answer was; the step that takes the
\* answer to the PUT of the last file leaves uploadProgress null and sends
\* exactly one list request, whatever the answers were.
C14_UploadFailureHandling ==
  [][event'.h = "PutDone" =>
       /\ event'.arg \in PutOutcomes
       /\ \E a \in Batches(uploads) :
            /\ PutsOf(inflight', a) # PutsOf(inflight, a)
                 \/ \A b \in Batches(uploads') : b # a
            /\ IF a.k < Len(a.files)
               THEN /\ \E b \in Batches(uploads') : SameBatch(a, b) /\ b.k = a.k + 1
                    /\ \E j \in PutsOf(inflight', a) :
                         /\ inflight'[j].clo.index = a.k + 1
                         /\ inflight'[j].body.file = a.files[a.k + 1]
                    /\ Count(inflight', {"list"}) = Count(inflight, {"list"})
               ELSE /\ \A b \in Batches(uploads') : b.id # a.id
                    /\ PutsOf(inflight', a) = {}
                    /\ a.live => uploadProgress' = NULL
                    /\ Count(inflight', {"list"}) = Count(inflight, {"list"}) + 1
                    /\ Cardinality(ListsOf(inflight', a.sid, a.path))
                         = Cardinality(ListsOf(inflight, a.sid, a.path)) + 1]_vars

\* the first file of a batch failed and the second one is being uploaded
C14_Witness ==
  /\ event.h = "PutDone" /\ event.arg \in {"fail", "neterr"}
  /\ \E b \in Batches(uploads) :
       b.k = 2 /\ \E j \in PutsOf(inflight, b) : inflight[j].clo.index = 2

\* the last file of a batch failed: the progress is cleared and the listing
\* is requested
C14_WitnessLast ==
  /\ event.h = "PutDone" /\ event.arg \in {"fail", "neterr"}
  /\ uploads = << >>
  /\ uploadProgress = NULL
  /\ Count(inflight, {"list"}) = 1

\* ------------------------------------------------------------------------
\* C15
\* ------------------------------------------------------------------------

\* the file input is disabled (line 668)
UploadDisabled == uploadProgress # NULL

\* C15: at most one upload batch is in progress at any time: from the moment
\* handleUpload starts a batch until that batch has finished, the upload
\* control is disabled, so that no second batch can be started.
C15_OneBatchAtATime ==
  FbMounted => \A b \in Batches(uploads) : b.live => UploadDisabled

\* ------------------------------------------------------------------------
\* C16
\* ------------------------------------------------------------------------

C16_WitnessSent ==
  /\ event.h = "handleCreateFolder"
  /\ newFolderName = << " ", "n", " " >>
  /\ inflight # << >>
  /\ inflight[Len(inflight)].op = "mkdir"
  /\ inflight[Len(inflight)].key = << "d", "/", "n" >>

\* the folder was created: the panel is closed and the listing requested
C16_WitnessOk ==
  /\ event = Ev("MkdirDone", "ok")
  /\ ~showNewFolderInput /\ newFolderName = EmptyStr
  /\ Count(inflight, {"list"}) > 0

\* ------------------------------------------------------------------------
\* C17
\* ------------------------------------------------------------------------

\* C17: when the answer to an offline download is ok and its body reports
\* success, the URL and the file name are cleared, the panel closed and the
\* listing requested; on any other outcome (error status, success false,
\* unparsable body, network error) the panel stays open with the inputs
\* unchanged and no listing is requested; offlineDownloading is false after
\* every outcome. While the request is in flight the panel is open.
C17_OfflineOutcome ==
  /\ [](FbMounted /\ offlineDownloading => showOfflineDownload)
  /\ [][event'.h = "FetchDone" =>
          /\ event'.arg \in FetchOutcomes
          /\ Count(inflight', {"fetch"}) = Count(inflight, {"fetch"}) - 1
          /\ offlineDownloading /\ ~offlineDownloading'
          /\ IF event'.arg = "success"
             THEN /\ offlineUrl' = EmptyStr /\ offlineFilename' = EmptyStr
                  /\ ~showOfflineDownload'
                  /\ Count(inflight', {"list"}) = Count(inflight, {"list"}) + 1
                  /\ Sent.op = "list"
             ELSE /\ showOfflineDownload'
                  /\ UNCHANGED << offlineUrl, offlineFilename, showOfflineDownload >>
                  /\ Count(inflight', {"list"}) = Count(inflight, {"list"})]_vars

\* the server answered ok with success false: the panel is open with the
\* URL and the name as entered
C17_Witness ==
  /\ event = Ev("FetchDone", "no success")
  /\ showOfflineDownload /\ ~offlineDownloading
  /\ offlineUrl = << " ", "u", " " >> /\ offlineFilename = << "f", " " >>

\* the download succeeded: the panel is closed and the listing requested
C17_WitnessSuccess ==
  /\ event = Ev("FetchDone", "success")
  /\ ~showOfflineDownload /\ offlineUrl = EmptyStr /\ offlineFilename = EmptyStr
  /\ Count(inflight, {"list"}) > 0

\* ------------------------------------------------------------------------
\* C18
\* ------------------------------------------------------------------------

\* C18: once the loader has run without a database binding, it has returned
\* isAdmin false, no storages, the configured site title and announcement
\* ('CList' and '' when they are not configured), and has called neither
\* initDatabase nor requireAuth nor a storage query, whatever the request's
\* credentials.
C18_LoaderWithoutDatabase ==
  (loaderData # NULL /\ env.DB = NULL) =>
    /\ loaderData.isAdmin = FALSE
    /\ loaderData.storages = << >>
    /\ loaderData.siteTitle = (IF env.SITE_TITLE = "" THEN "CList" ELSE env.SITE_TITLE)
    /\ loaderData.siteAnnouncement = env.SITE_ANNOUNCEMENT
    /\ DOMAIN loaderData = {"isAdmin", "storages", "siteTitle", "siteAnnouncement"}
    /\ calls = << >>

\* a request with an administrator's credentials was answered without a
\* database binding and without configured title and announcement
C18_Witness ==
  /\ loaderData # NULL /\ env.DB = NULL
  /\ authIsAdmin
  /\ env.SITE_TITLE = "" /\ env.SITE_ANNOUNCEMENT = ""
  /\ loaderData.siteTitle = "CList" /\ loaderData.siteAnnouncement = ""

\* ------------------------------------------------------------------------
\* C19
\* ------------------------------------------------------------------------

\* what the content area shows (lines 798-811)
View ==
  IF loading THEN "loading"
  ELSE IF error # "" THEN "error"
  ELSE IF Len(objects) = 0 THEN "empty"
  ELSE "rows"

\* C19: when a list request fails (non-ok response or network error) the
\* error message is non-empty and the view shows the error instead of object
\* rows; every new list request clears the error when it starts; when a list
\* request succeeds the view shows its objects and no error.
C19_ListingErrors ==
  [][/\ event'.h = "ListDone" =>
          IF event'.arg = "ok"
          THEN error' = "" /\ View' \in {"rows", "empty", "loading"}
          ELSE error' # "" /\ View' = "error"
     /\ event'.h = "loadFiles" => error' = ""]_vars

\* ------------------------------------------------------------------------
\* C20
\* ------------------------------------------------------------------------

\* the list requests of the mounted FileBrowser awaiting their response
ListsInFlight == { j \in 1..Len(inflight) : inflight[j].op = "list" /\ inflight[j].live }

\* C20: the loading flag of FileBrowser is true exactly while at least one of
\* its list requests is in flight.
C20_LoadingWhileInFlight ==
  FbMounted => (loading <=> ListsInFlight # {})

\* ------------------------------------------------------------------------
\* C21
\* ------------------------------------------------------------------------

\* C21: once every list request has settled, the objects displayed are the
\* listing of the selected storage and the current path, in whatever order
\* the responses arrived.
C21_ListingIsCurrent ==
  (FbMounted /\ Count(inflight, {"list"}) = 0) =>
    objects = Bucket(ListReq(selectedStorage.id, path, TRUE)).objects

\* ------------------------------------------------------------------------
\* C22
\* ------------------------------------------------------------------------

\* the requests the step sent
NewRequests == { inflight'[j] : j \in (Len(inflight) + 1)..Len(inflight') }

\* C22: when the selected storage changes, every list request sent for the
\* new storage is for the root path: no request combines the new storage's
\* id with the path left over from the storage browsed before.
C22_SwitchResetsToRoot ==
  [][(event'.h = "SelectStorage" /\ selectedStorage' # selectedStorage) =>
       \A r \in NewRequests :
         r.op = "list" /\ r.sid = selectedStorage'.id => r.key = EmptyStr]_vars

\* ------------------------------------------------------------------------
\* C23
\* ------------------------------------------------------------------------

\* what TextViewer shows (FilePreview lines 467-481 and the body after them)
TextShown ==
  IF textViewer.loading THEN [kind |-> "loading"]
  ELSE IF textViewer.error # "" THEN [kind |-> "error"]
  ELSE [kind |-> "text", text |-> textViewer.content]

\* C23: once all its fetches have settled, TextViewer shows the text of the
\* previewed url when the fetch of that url succeeded, and an error message
\* when it failed, whatever was previewed before and in whatever order the
\* responses arrived.
C23_TextViewerIsCurrent ==
  [][(/\ event'.h = "TextDone"
      /\ Len(textFetches) = 1
      /\ textFetches[1] = textViewer.url) =>
       TextShown' = (IF event'.arg = "ok"
                     THEN [kind |-> "text", text |-> TextAt(textViewer.url)]
                     ELSE [kind |-> "error"])]_vars

====
